---- MODULE Spec2Model ----
(***************************************************************************)
(* Model of the metadata client of services/meta (client.go): the cached   *)
(* snapshot c.data, the change gate c.changed, the poller                  *)
(* (pollForUpdates / retryUntilSnapshot / getSnapshot) and the             *)
(* change-aware mutation path (CreateDatabase / retryUntilExec / exec /    *)
(* Database), running against the meta servers of the cluster.            *)
(* The test cluster of clustertest (cluster.go) is modelled beside it: the *)
(* local cluster's Start / Stop and the fan-out of QueryAll over its data  *)
(* nodes.                                                                  *)
(***************************************************************************)
EXTENDS Integers, Sequences, FiniteSets, TLC

\* ------------------------------------------------------------------ bounds
NumServers == 2     \* longest configured meta server list
MaxStale   == 1     \* snapshot answers older than the cache that servers give
MaxNodes   == 2     \* most data nodes of a test cluster
MaxLive    == 2     \* most launched processes that no Stop has signalled
MaxCount   == 3     \* most nodes of one kind asked of newlocal
MaxCalls   == 2     \* most calls a test makes on one client, one after the other
MaxRetries == 2     \* most checks mapServers schedules again in one call
MaxAddrLen == 4     \* longest address given to shiftPort and ptoi
MaxRows    == 2     \* most rows of a series given to parseResult
MaxKeys    == 3     \* most keys or values of one measurement

\* ------------------------------------------------------------------ values
Callers == {"caller"}   \* the goroutines that call CreateDatabase, one call each
DBNames == {"db0", "db1"}
NoDB    == "<nil>"      \* a nil *DatabaseInfo
NoGate  == 0            \* a nil chan struct{}
NoServer == 0           \* no entry of c.metaServers
NoStatus == "none"      \* no HTTP answer

\* A *Data: nil, or a snapshot with its Index and Databases.
NilData  == [isNil |-> TRUE,  Index |-> 0, Databases |-> <<>>]
ZeroData == [isNil |-> FALSE, Index |-> 0, Databases |-> <<>>]

VARIABLES
  metaServers,    \* c.metaServers: the configured server list
  changed,        \* c.changed: the current gate
  closing,        \* c.closing: "nil", "open" or "closed"
  data,           \* c.data: the cached snapshot
  gates,          \* number of gates made so far (make(chan struct{}))
  closedGates,    \* the gates that were closed (close(ch))
  ppc,            \* where the goroutine of Open / pollForUpdates is
  opened,         \* Open has returned and pollForUpdates runs
  currentServer,  \* retryUntilSnapshot's local currentServer
  pdata,          \* the snapshot retryUntilSnapshot returned
  pserver,        \* the server whose answer retryUntilSnapshot returned
  failedOn,       \* the servers retryUntilSnapshot failed on, in order, since
                  \* its cursor was last set to 0
  storeDBs,       \* the store: the databases, in the order they were created
  served,         \* the index of the newest document each meta server served
  staleFetches,   \* answers given so far that were older than the cache
  calls,          \* each caller's CreateDatabase activation
  panicked,       \* the process died of a runtime panic
  respStatus,     \* audit: the HTTP status of the answer whose body
                  \* retryUntilSnapshot returned last
  dataStatus,     \* audit: the HTTP status of the answer whose body is c.data
  afterClose,     \* audit: pollForUpdates has installed after Close returned
  dataN,          \* local.dataN: the number of data nodes expected
  running,        \* local.running
  clients,        \* local.clients: the node ids that have a client
  dataNodes,      \* local.dataNodes: the node ids that are mapped
  muReaders,      \* local.mu: the number of read locks held
  muWriter,       \* local.mu: the method that holds the write lock, or "none"
  live,           \* the processes of c.cmds that were sent no interrupt yet
  lret,           \* what the last Start or Stop returned
  qpc,            \* where the caller of QueryAll is
  toSpawn,        \* QueryAll: the ids its range loop has still to visit
  targets,        \* QueryAll: the ids of c.dataNodes when it was called
  chCap,          \* QueryAll: the capacity of ch
  ch,             \* QueryAll: the responses buffered in ch
  chClosed,       \* QueryAll: ch is closed
  wg,             \* QueryAll: the counter of its sync.WaitGroup
  wpc,            \* QueryAll: where the goroutine of each id is
  wresp,          \* QueryAll: the response each goroutine got from Query
  closer,         \* QueryAll: where the goroutine that closes ch is
  received,       \* the responses the caller took from ch
  returned,       \* the calls on the client that have returned, in order:
                  \* method, name and error of each
  mcall,          \* the activation of CreateMetaNode
  args,           \* newlocal: its arguments hybridN, metaN and dataN
  cpc,            \* newlocal: where the call is
  created,        \* newlocal: the directories and files it has created
  cerr,           \* newlocal: the value it panicked with or the error it
                  \* returned
  docs,           \* the scenario: the store's documents, the database names
                  \* at each index from 1 on
  cached,         \* the scenario: the index each data node's client caches
  tpc,            \* the scenario: where TestShowDropDatabase is
  shown,          \* the scenario: the databases each node answered the
                  \* current QueryAll with
  muPending,      \* local.mu: the method that waits in Lock, or "none"
  lpc,            \* where the caller of NewDatabase and of WriteAny is
  mapping,        \* mapServers: the activation of the call
  fin,            \* a helper function under test: its arguments
  fout            \* a helper function under test: what it returned

vars == <<metaServers, changed, closing, data, gates, closedGates, ppc, opened,
          currentServer, pdata, pserver, failedOn, storeDBs, served,
          staleFetches, calls, panicked, respStatus, dataStatus, afterClose,
          dataN, running, clients, dataNodes, muReaders, muWriter, live, lret,
          qpc, toSpawn, targets,
          chCap, ch, chClosed, wg, wpc, wresp, closer, received, returned,
          mcall, args, cpc, created, cerr, docs, cached, tpc, shown, muPending,
          lpc, mapping, fin, fout>>

clientVars == <<metaServers, changed, closing, data, gates, closedGates>>
pollVars   == <<ppc, opened, currentServer, pdata, pserver, failedOn>>
storeVars  == <<storeDBs, served, staleFetches>>
auditVars  == <<respStatus, dataStatus, afterClose>>
procVars   == <<muWriter, live, lret>>
localVars  == <<dataN, running, clients, dataNodes, muReaders, procVars>>
queryVars  == <<qpc, toSpawn, targets, chCap, ch, chClosed, wg, wpc, wresp,
                closer, received>>
apiVars    == <<returned, mcall>>
constructVars == <<args, cpc, created, cerr>>
scenarioVars  == <<docs, cached, tpc, shown>>
lockVars   == <<muPending, lpc>>
mapVars    == <<mapping>>
funVars    == <<fin, fout>>
helperVars == <<lockVars, mapVars, funVars>>
suiteVars  == <<constructVars, scenarioVars, helperVars>>
\* What Start, Stop and QueryAll leave alone.
metaVars   == <<clientVars, pollVars, storeVars, calls, panicked, auditVars,
                apiVars, suiteVars>>

\* ------------------------------------------------------------------ store
\* The snapshot document a store holds at index i: every accepted mutation
\* makes the next index.
SnapshotAt(i) == [isNil |-> FALSE, Index |-> i, Databases |-> SubSeq(storeDBs, 1, i)]

Range(s) == {s[k] : k \in 1..Len(s)}

\* The store's handling of a CreateDatabaseCommand: a new name is appended
\* (a new index); a name that exists already changes nothing.
ApplyCreateDatabase(dbs, name) ==
  IF name \in Range(dbs) THEN dbs ELSE Append(dbs, name)

\* The index at which the database `name` entered the store's document.
AppliedIndex(dbs, name) ==
  CHOOSE k \in 1..Len(dbs) : dbs[k] = name

\* Another client of the cluster has a database created: an accepted mutation
\* that none of this client's callers asked for.
OtherMutation(name) ==
  /\ ~panicked
  /\ name \notin Range(storeDBs)
  /\ storeDBs' = Append(storeDBs, name)
  /\ UNCHANGED <<clientVars, pollVars, served, staleFetches, calls, panicked>>

\* ------------------------------------------------------------------ client
ServerList(n) == [k \in 1..n |-> k]

NoCall == [pc |-> "idle", name |-> NoDB, ch |-> NoGate, obtainedAt |-> 0,
           i |-> 0, sent |-> 0, err |-> 0, applied |-> 0, waited |-> NoGate,
           ret |-> [info |-> NoDB, err |-> "none"], retIndex |-> 0,
           tried |-> <<>>, okAt |-> 0]

\* One request of retryUntilExec, as the run went: the server exec posted
\* to and whether exec returned nil. tried: the servers posted to, in
\* order; okAt: the number of the first request that returned nil.
Attempt(call, ok) ==
  [call EXCEPT !.sent = @ + 1,
               !.tried = Append(@, metaServers[call.i]),
               !.okAt = IF ok /\ @ = 0 THEN Len(call.tried) + 1 ELSE @]

\* NewClient: only metaServers is set; changed, closing and data are nil.
NewClient(servers) ==
  /\ metaServers = servers
  /\ changed = NoGate
  /\ closing = "nil"
  /\ data = NilData
  /\ gates = 0
  /\ closedGates = {}

\* The client at its start as the design has it: the cache holds the empty
\* snapshot with index 0.
ClientAtStart(servers) ==
  /\ metaServers = servers
  /\ changed = NoGate
  /\ closing = "nil"
  /\ data = ZeroData
  /\ gates = 0
  /\ closedGates = {}

\* ------------------------------------------------------------------ cluster
Nodes == 1..MaxNodes    \* the ids of data nodes

NoResponse == [nodeID |-> 0, err |-> "none"]

\* What Start or Stop returned: the method and its error.
NoReturn == [op |-> "none", err |-> "none"]

\* newlocal: the test cluster before Start, with n data nodes expected, an
\* empty clients map and no dataNodes map; no QueryAll is under way.
newlocal(n) ==
  /\ dataN = n
  /\ running = FALSE
  /\ clients = {}
  /\ dataNodes = {}
  /\ muReaders = 0
  /\ muWriter = "none"
  /\ live = 0
  /\ lret = NoReturn
  /\ qpc = "idle"
  /\ toSpawn = {}
  /\ targets = {}
  /\ chCap = 0
  /\ ch = <<>>
  /\ chClosed = FALSE
  /\ wg = 0
  /\ wpc = [id \in Nodes |-> "none"]
  /\ wresp = [id \in Nodes |-> NoResponse]
  /\ closer = "none"
  /\ received = <<>>

\* The arguments of newlocal, and none.
NoArgs == [hybridN |-> 0, metaN |-> 0, dataN |-> 0]

\* The flags of TestMain are ints: a count can be negative.
Counts == -1..MaxCount

\* No test has begun.
ScenarioAtRest ==
  /\ docs = <<>>
  /\ cached = [id \in Nodes |-> 0]
  /\ tpc = "idle"
  /\ shown = [id \in Nodes |-> {}]

\* The methods of local that take the read lock and, holding it, call a
\* method that takes it again: NewDatabase calls QueryAny, WriteAny calls
\* Write.
LockedCalls == {"NewDatabase", "WriteAny"}

\* Nobody waits for the write lock, and neither method has been called.
LockAtRest ==
  /\ muPending = "none"
  /\ lpc = [op \in LockedCalls |-> "idle"]

\* mapServers: no answer to SHOW SERVERS yet, and no call.
NoAnswer  == [kind |-> "none", meta |-> 0, data |-> {}]
NoMapping == [pc |-> "idle", retries |-> 0, timedOut |-> FALSE,
              checkDue |-> FALSE, metaN |-> 0, err |-> "none",
              answer |-> NoAnswer]

MapAtRest == mapping = NoMapping

\* No helper function is under test.
FunAtRest ==
  /\ fin = <<>>
  /\ fout = <<>>

HelpersAtRest == LockAtRest /\ MapAtRest /\ FunAtRest

\* newlocal's checks of the node counts: the numbers of the cluster
\* invariant and the values it panics with.
MinMetaNodes == 3
MinDataNodes == 1
portJump == 100

TooFewMetaNodes == "cluster must have at least three meta nodes"
TooFewDataNodes == "cluster must have at least one data node"

\* newlocal: the node configurations it makes, one for every pass of its
\* three loops `for i := 1; i <= n; i++`.
Passes(n) == IF n > 0 THEN n ELSE 0

NodeConfs(a) == Passes(a.hybridN) + Passes(a.metaN) + Passes(a.dataN)

\* newlocal: the configurations written so far. The base directory is
\* created first, then a directory and a file for every configuration.
Written == (created - 1) \div 2

\* newlocal without its checks of the node counts.
newlocalNoCheck ==
  /\ cpc = "check"
  /\ cpc' = "tempdir"
  /\ dataN' = args.hybridN + args.dataN
  /\ UNCHANGED <<args, created, cerr, scenarioVars, helperVars, running, clients, dataNodes,
                 muReaders, procVars, queryVars, clientVars, pollVars, storeVars,
                 calls, panicked, auditVars, apiVars>>

\* newlocal, its first statements: the two checks of the node counts, each
\* with its panic, and then the struct with dataN: hybridN + dataN.
newlocalCheck ==
  /\ cpc = "check"
  /\ IF args.metaN + args.hybridN < MinMetaNodes
       THEN cpc' = "panicked" /\ cerr' = TooFewMetaNodes /\ UNCHANGED dataN
       ELSE IF args.dataN + args.hybridN < MinDataNodes
         THEN cpc' = "panicked" /\ cerr' = TooFewDataNodes /\ UNCHANGED dataN
         ELSE /\ cpc' = "tempdir"
              /\ dataN' = args.hybridN + args.dataN
              /\ UNCHANGED cerr
  /\ UNCHANGED <<args, created, scenarioVars, helperVars, running, clients, dataNodes,
                 muReaders, procVars, queryVars, clientVars, pollVars, storeVars,
                 calls, panicked, auditVars, apiVars>>

\* newlocal: ioutil.TempDir makes the base directory, or newlocal panics
\* with its error.
newlocalTempDir(ok) ==
  /\ cpc = "tempdir"
  /\ IF ok
       THEN created' = created + 1 /\ cpc' = "write" /\ UNCHANGED cerr
       ELSE cpc' = "panicked" /\ cerr' = "TempDir" /\ UNCHANGED created
  /\ UNCHANGED <<args, scenarioVars, helperVars, localVars, queryVars, clientVars, pollVars,
                 storeVars, calls, panicked, auditVars, apiVars>>

\* newlocal, one pass of the loop over c.nodeConfs: MkdirAll, Create and
\* Encode. failed names the statement that fails, or "none"; on a failure
\* newlocal returns nil and the error.
WriteFailures == {"none", "MkdirAll", "Create", "Encode"}

newlocalWrite(failed) ==
  /\ cpc = "write"
  /\ Written < NodeConfs(args)
  /\ created' = created + (CASE failed = "MkdirAll" -> 0
                              [] failed = "Create" -> 1
                              [] OTHER -> 2)
  /\ IF failed = "none"
       THEN UNCHANGED <<cpc, cerr>>
       ELSE cpc' = "error" /\ cerr' = failed
  /\ UNCHANGED <<args, scenarioVars, helperVars, localVars, queryVars, clientVars, pollVars,
                 storeVars, calls, panicked, auditVars, apiVars>>

\* newlocal: return c, nil.
newlocalReturn ==
  /\ cpc = "write"
  /\ Written = NodeConfs(args)
  /\ cpc' = "returned"
  /\ UNCHANGED <<args, created, cerr, scenarioVars, helperVars, localVars, queryVars,
                 clientVars, pollVars, storeVars, calls, panicked, auditVars,
                 apiVars>>

\* The cluster is made, and no test has begun.
SuiteAtRest ==
  /\ args = NoArgs
  /\ cpc = "returned"
  /\ created = 0
  /\ cerr = "none"
  /\ ScenarioAtRest
  /\ HelpersAtRest

\* ------------------------------------------------------------------ client
\* NewClient leaves c.data nil, and with it the first read of c.data.Index in
\* Open is a runtime panic. The start with the empty snapshot is modelled
\* beside it; what the client does after Open is reached from there.
ClientInit ==
  /\ \E n \in 0..NumServers : NewClient(ServerList(n)) \/ ClientAtStart(ServerList(n))
  /\ ppc = "new"
  /\ opened = FALSE
  /\ currentServer = 0
  /\ pdata = NilData
  /\ pserver = NoServer
  /\ failedOn = <<>>
  /\ storeDBs = <<>>
  /\ served = [s \in 1..NumServers |-> 0]
  /\ staleFetches = 0
  /\ calls = [c \in Callers |-> NoCall]
  /\ panicked = FALSE
  /\ respStatus = NoStatus
  /\ dataStatus = NoStatus
  /\ afterClose = FALSE
  /\ returned = <<>>
  /\ mcall = NoCall

\* The client, with a test cluster that is never started.
Init == ClientInit /\ newlocal(MaxNodes) /\ SuiteAtRest

\* Open, up to the call of retryUntilSnapshot.
Open ==
  /\ ~panicked
  /\ ppc = "new"
  /\ gates' = gates + 1
  /\ changed' = gates + 1
  /\ closing' = "open"
  /\ ppc' = "read"
  /\ currentServer' = 0
  /\ UNCHANGED <<metaServers, data, closedGates, opened, pdata, pserver,
                 failedOn, storeVars, calls, panicked>>

\* A runtime panic ends the process: its goroutines are gone.
Panic ==
  /\ panicked' = TRUE
  /\ ppc' = "dead"
  /\ currentServer' = 0
  /\ pdata' = NilData
  /\ pserver' = NoServer
  /\ failedOn' = <<>>
  /\ calls' = [c \in Callers |-> NoCall]

\* Close: close(c.closing). Closing a nil or a closed channel panics.
Close ==
  /\ ~panicked
  /\ IF closing = "open"
       THEN closing' = "closed" /\ UNCHANGED <<pollVars, calls, panicked>>
       ELSE Panic /\ UNCHANGED <<closing, opened>>
  /\ UNCHANGED <<metaServers, changed, data, gates, closedGates, storeVars>>

\* retryUntilSnapshot, the head of one pass of its loop: c.data.Index of a
\* nil c.data, or c.metaServers[0] of an empty list, is a runtime panic.
SnapshotPanics == data.isNil \/ Len(metaServers) = 0

\* retryUntilSnapshot: the cursor after `if currentServer >= len(...)`.
Cursor == IF currentServer >= Len(metaServers) THEN 0 ELSE currentServer

\* The failures of this call so far that the cursor still counts: none
\* again once the cursor went back to 0.
FailedSinceReset == IF currentServer >= Len(metaServers) THEN <<>> ELSE failedOn

SnapshotPanic ==
  /\ ~panicked
  /\ ppc = "read"
  /\ SnapshotPanics
  /\ Panic
  /\ UNCHANGED <<clientVars, opened, storeVars>>

\* One pass of retryUntilSnapshot in which getSnapshot answers with a
\* document, which retryUntilSnapshot returns. The server answers with the
\* document it has, whatever ?index= was sent: index j, not older than what
\* it served before and not newer than the store.
SnapshotOk(j) ==
  /\ ~panicked
  /\ ppc = "read"
  /\ ~SnapshotPanics
  /\ LET server == metaServers[Cursor + 1]
     IN /\ j >= served[server]
        /\ j <= Len(storeDBs)
        /\ served' = [served EXCEPT ![server] = j]
        /\ IF j < data.Index
             THEN staleFetches < MaxStale /\ staleFetches' = staleFetches + 1
             ELSE UNCHANGED staleFetches
        /\ pdata' = SnapshotAt(j)
        /\ pserver' = server
  /\ failedOn' = FailedSinceReset
  /\ currentServer' = Cursor
  /\ ppc' = "install"
  /\ UNCHANGED <<clientVars, opened, storeDBs, calls, panicked>>

\* retryUntilSnapshot giving up after a failure: it returns the snapshot the
\* cache holds.
SnapshotErrGivesUp ==
  /\ ~panicked
  /\ ppc = "read"
  /\ ~SnapshotPanics
  /\ currentServer' = Cursor + 1
  /\ failedOn' = Append(FailedSinceReset, metaServers[Cursor + 1])
  /\ pdata' = data
  /\ ppc' = "install"
  /\ UNCHANGED <<clientVars, opened, pserver, storeVars, calls, panicked>>

\* retryUntilSnapshot without the move to the next server: it asks the
\* server that failed again.
SnapshotErrSameServer ==
  /\ ~panicked
  /\ ppc = "read"
  /\ ~SnapshotPanics
  /\ currentServer' = Cursor
  /\ failedOn' = Append(FailedSinceReset, metaServers[Cursor + 1])
  /\ UNCHANGED <<clientVars, ppc, opened, pdata, pserver, storeVars, calls,
                 panicked>>

\* One pass of retryUntilSnapshot in which getSnapshot fails: log, move the
\* cursor on, sleep, retry.
SnapshotErr ==
  /\ ~panicked
  /\ ppc = "read"
  /\ ~SnapshotPanics
  /\ currentServer' = Cursor + 1
  /\ failedOn' = Append(FailedSinceReset, metaServers[Cursor + 1])
  /\ UNCHANGED <<clientVars, ppc, opened, pdata, pserver, storeVars, calls,
                 panicked>>

\* Open, after retryUntilSnapshot returned: c.data = ...; go pollForUpdates.
OpenInstall ==
  /\ ~panicked
  /\ ppc = "install"
  /\ ~opened
  /\ data' = pdata
  /\ opened' = TRUE
  /\ ppc' = "read"
  /\ currentServer' = 0
  /\ pdata' = NilData
  /\ pserver' = NoServer
  /\ failedOn' = <<>>
  /\ UNCHANGED <<metaServers, changed, closing, gates, closedGates, storeVars,
                 calls, panicked>>

\* pollForUpdates with the close forgotten: the gate is replaced, never closed.
pollForUpdatesNoClose ==
  /\ ~panicked
  /\ ppc = "install"
  /\ opened
  /\ data' = pdata
  /\ IF data.Index < pdata.Index
       THEN gates' = gates + 1 /\ changed' = gates + 1
       ELSE UNCHANGED <<gates, changed>>
  /\ ppc' = "read"
  /\ currentServer' = 0
  /\ pdata' = NilData
  /\ pserver' = NoServer
  /\ failedOn' = <<>>
  /\ UNCHANGED <<metaServers, closing, closedGates, opened, storeVars, calls, panicked>>

\* pollForUpdates with the comparison off by one: an advance of one index
\* installs the snapshot and leaves the gate alone.
pollForUpdatesLateSwap ==
  /\ ~panicked
  /\ ppc = "install"
  /\ opened
  /\ data' = pdata
  /\ IF data.Index + 1 < pdata.Index
       THEN /\ closedGates' = closedGates \cup {changed}
            /\ gates' = gates + 1
            /\ changed' = gates + 1
       ELSE UNCHANGED <<closedGates, gates, changed>>
  /\ ppc' = "read"
  /\ currentServer' = 0
  /\ pdata' = NilData
  /\ pserver' = NoServer
  /\ failedOn' = <<>>
  /\ UNCHANGED <<metaServers, closing, opened, storeVars, calls, panicked>>

\* pollForUpdates with the make forgotten: the gate is closed and stays current.
pollForUpdatesNoMake ==
  /\ ~panicked
  /\ ppc = "install"
  /\ opened
  /\ data' = pdata
  /\ IF data.Index < pdata.Index /\ changed \notin closedGates
       THEN closedGates' = closedGates \cup {changed}
       ELSE UNCHANGED closedGates
  /\ ppc' = "read"
  /\ currentServer' = 0
  /\ pdata' = NilData
  /\ pserver' = NoServer
  /\ failedOn' = <<>>
  /\ UNCHANGED <<metaServers, changed, closing, gates, opened, storeVars, calls, panicked>>

\* pollForUpdates with the comparison dropped: every install swaps the gate.
pollForUpdatesAlwaysSwap ==
  /\ ~panicked
  /\ ppc = "install"
  /\ opened
  /\ data' = pdata
  /\ closedGates' = closedGates \cup {changed}
  /\ gates' = gates + 1
  /\ changed' = gates + 1
  /\ ppc' = "read"
  /\ currentServer' = 0
  /\ pdata' = NilData
  /\ pserver' = NoServer
  /\ failedOn' = <<>>
  /\ UNCHANGED <<metaServers, closing, opened, storeVars, calls, panicked>>

\* pollForUpdates, the locked part: install the snapshot, and when the index
\* went up close the gate and make a new one.
pollForUpdates ==
  /\ ~panicked
  /\ ppc = "install"
  /\ opened
  /\ LET idx == data.Index
     IN /\ data' = pdata
        /\ IF idx < pdata.Index
             THEN /\ closedGates' = closedGates \cup {changed}
                  /\ gates' = gates + 1
                  /\ changed' = gates + 1
             ELSE UNCHANGED <<closedGates, gates, changed>>
  /\ ppc' = "read"
  /\ currentServer' = 0
  /\ pdata' = NilData
  /\ pserver' = NoServer
  /\ failedOn' = <<>>
  /\ UNCHANGED <<metaServers, closing, opened, storeVars, calls, panicked>>

\* ------------------------------------------------------------------ callers
\* Database with the name comparison dropped: the first database there is.
DatabaseAny(name) ==
  IF Len(data.Databases) > 0
    THEN [info |-> data.Databases[1], err |-> "nil"]
    ELSE [info |-> NoDB, err |-> "ErrDatabaseNotFound"]

\* Database answering a missing name with nil, nil.
DatabaseNilNil(name) ==
  LET hits == {k \in 1..Len(data.Databases) : data.Databases[k] = name}
  IN IF hits # {}
       THEN [info |-> data.Databases[CHOOSE k \in hits : \A j \in hits : k <= j],
             err |-> "nil"]
       ELSE [info |-> NoDB, err |-> "nil"]

\* Database: the first database of the cached snapshot with that name.
Database(name) ==
  LET hits == {k \in 1..Len(data.Databases) : data.Databases[k] = name}
  IN IF hits # {}
       THEN [info |-> data.Databases[CHOOSE k \in hits : \A j \in hits : k <= j],
             err |-> "nil"]
       ELSE [info |-> NoDB, err |-> "ErrDatabaseNotFound"]

\* WaitForDataChanged: the current gate.
WaitForDataChanged == changed

\* CreateDatabase with the error of retryUntilExec ignored: it waits anyway.
AfterExecIgnoreErr(call, i, err) ==
  IF err = 0
    THEN [call EXCEPT !.pc = "wait", !.i = i, !.err = 0]
    ELSE IF i < Len(metaServers)
      THEN [call EXCEPT !.pc = "exec", !.i = i + 1, !.err = err]
      ELSE [call EXCEPT !.pc = "wait", !.i = i, !.err = err]

\* retryUntilExec without the return on success: it goes through the list.
AfterExecKeepsGoing(call, i, err) ==
  IF i < Len(metaServers)
    THEN [call EXCEPT !.pc = "exec", !.i = i + 1, !.err = err]
    ELSE IF err = 0
      THEN [call EXCEPT !.pc = "wait", !.i = i, !.err = 0]
      ELSE [call EXCEPT !.pc = "done", !.i = i, !.err = err,
                        !.ret = [info |-> NoDB, err |-> "exec"]]

\* retryUntilExec keeping the first error instead of the last.
AfterExecFirstErr(call, i, err) ==
  IF err = 0
    THEN [call EXCEPT !.pc = "wait", !.i = i, !.err = 0]
    ELSE LET first == IF call.err # 0 THEN call.err ELSE err
         IN IF i < Len(metaServers)
              THEN [call EXCEPT !.pc = "exec", !.i = i + 1, !.err = first]
              ELSE [call EXCEPT !.pc = "done", !.i = i, !.err = first,
                                !.ret = [info |-> NoDB, err |-> "exec"]]

\* What retryUntilExec does after the attempt on server number i ended with
\* err (0: no error, else the number of the server that failed): return on
\* success, go on to the next server, or return the last error.
AfterExec(call, i, err) ==
  IF err = 0
    THEN [call EXCEPT !.pc = "wait", !.i = i, !.err = 0]
    ELSE IF i < Len(metaServers)
      THEN [call EXCEPT !.pc = "exec", !.i = i + 1, !.err = err]
      ELSE [call EXCEPT !.pc = "done", !.i = i, !.err = err,
                        !.ret = [info |-> NoDB, err |-> "exec"]]

\* CreateDatabase with the two statements swapped: the submit starts before
\* the gate is read.
CreateDatabaseSubmitFirst(c, name) ==
  /\ ~panicked
  /\ opened
  /\ calls[c].pc = "idle"
  /\ calls' = [calls EXCEPT ![c] =
       IF Len(metaServers) = 0
         THEN [@ EXCEPT !.name = name, !.pc = "wait"]
         ELSE [@ EXCEPT !.name = name, !.pc = "exec", !.i = 1]]
  /\ UNCHANGED <<clientVars, pollVars, storeVars, panicked>>

\* CreateDatabase up to the first request: take the gate, then start
\* retryUntilExec. With no server configured the loop body never runs and
\* retryUntilExec returns nil.
CreateDatabase(c, name) ==
  /\ ~panicked
  /\ opened
  /\ calls[c].pc = "idle"
  /\ LET call == [calls[c] EXCEPT !.name = name, !.ch = WaitForDataChanged,
                                  !.obtainedAt = data.Index]
     IN calls' = [calls EXCEPT ![c] =
                    IF Len(metaServers) = 0
                      THEN [call EXCEPT !.pc = "wait"]
                      ELSE [call EXCEPT !.pc = "exec", !.i = 1]]
  /\ UNCHANGED <<clientVars, pollVars, storeVars, panicked>>

\* exec on the next server of the list; the server got the command and
\* applied it. The answer is 200 (answered) or it is lost on the way back.
ExecApplied(c, answered) ==
  /\ ~panicked
  /\ calls[c].pc = "exec"
  /\ LET call == calls[c]
         dbs  == ApplyCreateDatabase(storeDBs, call.name)
     IN /\ storeDBs' = dbs
        /\ calls' = [calls EXCEPT ![c] =
             AfterExec([Attempt(call, answered)
                          EXCEPT !.applied = AppliedIndex(dbs, call.name)],
                       call.i, IF answered THEN 0 ELSE call.i)]
  /\ UNCHANGED <<clientVars, pollVars, served, staleFetches, panicked>>

\* exec on the next server of the list failed before the command was applied:
\* no connection, or a status other than 200.
ExecFailed(c) ==
  /\ ~panicked
  /\ calls[c].pc = "exec"
  /\ calls' = [calls EXCEPT ![c] =
       AfterExec(Attempt(calls[c], FALSE), calls[c].i, calls[c].i)]
  /\ UNCHANGED <<clientVars, pollVars, storeVars, panicked>>

\* The gate CreateDatabase receives from: its local ch.
WaitGate(c) == calls[c].ch

\* CreateDatabase: <-ch returns once the gate is closed.
AwaitChange(c) ==
  /\ ~panicked
  /\ calls[c].pc = "wait"
  /\ WaitGate(c) \in closedGates
  /\ calls' = [calls EXCEPT ![c] = [@ EXCEPT !.pc = "lookup", !.waited = WaitGate(c)]]
  /\ UNCHANGED <<clientVars, pollVars, storeVars, panicked>>

\* CreateDatabase: return c.Database(name).
ReturnDatabase(c) ==
  /\ ~panicked
  /\ calls[c].pc = "lookup"
  /\ calls' = [calls EXCEPT ![c] = [@ EXCEPT !.pc = "done",
                                             !.ret = Database(calls[c].name),
                                             !.retIndex = data.Index]]
  /\ UNCHANGED <<clientVars, pollVars, storeVars, panicked>>

\* CreateMetaNode returns what retryUntilExec returned: nil where AfterExec
\* has the call go on to its wait.
MetaNodeReturn(call) ==
  IF call.pc = "wait"
    THEN [call EXCEPT !.pc = "done", !.ret = [info |-> NoDB, err |-> "nil"]]
    ELSE call

\* CreateMetaNode up to the first request of retryUntilExec. It needs no
\* Open. With no server configured the loop body never runs, err is still
\* nil, and retryUntilExec and CreateMetaNode return nil.
CreateMetaNode ==
  /\ ~panicked
  /\ mcall.pc = "idle"
  /\ mcall' = IF Len(metaServers) = 0
                THEN MetaNodeReturn([mcall EXCEPT !.pc = "wait"])
                ELSE [mcall EXCEPT !.pc = "exec", !.i = 1]
  /\ UNCHANGED <<clientVars, pollVars, storeVars, calls, panicked, auditVars,
                 returned, localVars, queryVars, suiteVars>>

\* CreateMetaNode: exec on the next server of the list, which answers with
\* 200 (ok) or fails.
MetaNodeExec(ok) ==
  /\ ~panicked
  /\ mcall.pc = "exec"
  /\ mcall' = MetaNodeReturn(AfterExec(Attempt(mcall, ok), mcall.i,
                                       IF ok THEN 0 ELSE mcall.i))
  /\ UNCHANGED <<clientVars, pollVars, storeVars, calls, panicked, auditVars,
                 returned, localVars, queryVars, suiteVars>>

\* Databases: it returns nil, nil.
Databases == [dbs |-> <<>>, err |-> "nil"]

\* DropDatabase: it returns nil; no command is sent.
DropDatabase(c, name) ==
  /\ ~panicked
  /\ opened
  /\ calls[c].pc = "idle"
  /\ Len(returned) < MaxCalls
  /\ returned' = Append(returned, [op |-> "DropDatabase", name |-> name,
                                   err |-> "nil"])
  /\ UNCHANGED <<clientVars, pollVars, storeVars, calls, panicked, auditVars,
                 mcall, localVars, queryVars, suiteVars>>

\* The caller's goroutine goes on to its next call.
CallAgain(c) ==
  /\ ~panicked
  /\ calls[c].pc = "done"
  /\ calls' = [calls EXCEPT ![c] = NoCall]
  /\ UNCHANGED <<clientVars, pollVars, storeVars, panicked, auditVars, apiVars,
                 localVars, queryVars, suiteVars>>

\* ------------------------------------------------------------------ system
\* A step of the client that the audit does not follow.
Unaudited(A) ==
  A /\ UNCHANGED <<auditVars, localVars, queryVars, apiVars, suiteVars>>

Next ==
  \/ Unaudited(Open)
  \/ Unaudited(Close)
  \/ Unaudited(SnapshotPanic)
  \/ \E j \in 0..Len(storeDBs) : Unaudited(SnapshotOk(j))
  \/ Unaudited(SnapshotErr)
  \/ Unaudited(OpenInstall)
  \/ Unaudited(pollForUpdates)
  \/ \E name \in DBNames : Unaudited(OtherMutation(name))
  \/ \E c \in Callers, name \in DBNames : Unaudited(CreateDatabase(c, name))
  \/ \E c \in Callers, answered \in BOOLEAN : Unaudited(ExecApplied(c, answered))
  \/ \E c \in Callers : Unaudited(ExecFailed(c))
  \/ \E c \in Callers : Unaudited(AwaitChange(c))
  \/ \E c \in Callers : Unaudited(ReturnDatabase(c))

Spec == Init /\ [][Next]_vars

\* Fairness: the scheduler lets the poller goroutine run, and again and
\* again a fetch is answered with the store's newest document.
FairSpec ==
  /\ Spec
  /\ WF_vars(Unaudited(pollForUpdates))
  /\ WF_vars(Unaudited(OpenInstall))
  /\ SF_vars(Unaudited(SnapshotOk(Len(storeDBs))))

\* One pass of retryUntilSnapshot, whatever its outcome.
FetchPass ==
  \/ Unaudited(SnapshotErr)
  \/ \E j \in 0..Len(storeDBs) : Unaudited(SnapshotOk(j))

\* The last server of the list stays reachable and serves every index the
\* store has accepted: asked again and again, it answers with the newest
\* document.
GoodServerAnswers ==
  /\ Len(metaServers) > 0
  /\ Cursor + 1 = Len(metaServers)
  /\ Unaudited(SnapshotOk(Len(storeDBs)))

\* Fairness for convergence: the scheduler lets the poller goroutine run,
\* every request of it ends, and one server, the last of the list, is such a
\* good server; the other servers answer or fail as they like.
ConvergeSpec ==
  /\ Spec
  /\ WF_vars(Unaudited(pollForUpdates))
  /\ WF_vars(Unaudited(OpenInstall))
  /\ WF_vars(FetchPass)
  /\ SF_vars(GoodServerAnswers)

\* Fairness for a waiting caller: the fair poller of FairSpec, and the
\* scheduler lets the goroutine of CreateDatabase run when its receive from
\* the gate can return.
CallSpec ==
  /\ FairSpec
  /\ \A c \in Callers :
       /\ WF_vars(Unaudited(AwaitChange(c)))
       /\ WF_vars(Unaudited(ReturnDatabase(c)))

\* ------------------------------------------------------------------ poller
\* The answers a meta server's HTTP service can give to a GET of getSnapshot:
\* none (no connection, or the body cannot be read), or a status with a body
\* that UnmarshalBinary accepts or rejects.
HTTPStatuses == {"200 OK", "500 Internal Server Error"}

Answers ==
  {[got |-> FALSE, status |-> NoStatus, decodes |-> FALSE]}
    \cup {[got |-> TRUE, status |-> st, decodes |-> d] :
             st \in HTTPStatuses, d \in BOOLEAN}

\* getSnapshot: the error it returns for an answer. It returns the error of
\* http.Get, of ReadAll and of UnmarshalBinary; resp.StatusCode is not read.
getSnapshot(answer) ==
  IF ~answer.got THEN "err"
  ELSE IF ~answer.decodes THEN "err"
  ELSE "nil"

\* A step of the poller with the audit kept: the status of the answer that
\* retryUntilSnapshot returned, the status behind the cached snapshot, and
\* whether pollForUpdates has installed after Close.
Audited(A, status) ==
  /\ A
  /\ respStatus' = IF ppc = "read" /\ ppc' = "install" THEN status ELSE respStatus
  /\ dataStatus' = IF ppc = "install" /\ ppc' = "read" THEN respStatus ELSE dataStatus
  /\ afterClose' = (afterClose
                      \/ (opened /\ closing = "closed" /\ ppc = "install" /\ ppc' = "read"))
  /\ UNCHANGED <<localVars, queryVars, apiVars, suiteVars>>

\* The poller goroutine alone, with Open, Close and the store.
PollerNext ==
  \/ Audited(Open, NoStatus)
  \/ Audited(Close, NoStatus)
  \/ Audited(SnapshotPanic, NoStatus)
  \/ \E j \in 0..Len(storeDBs), a \in Answers :
       getSnapshot(a) = "nil" /\ Audited(SnapshotOk(j), a.status)
  \/ \E a \in Answers :
       getSnapshot(a) # "nil" /\ Audited(SnapshotErr, a.status)
  \/ Audited(OpenInstall, NoStatus)
  \/ Audited(pollForUpdates, NoStatus)
  \/ \E name \in DBNames : Audited(OtherMutation(name), NoStatus)

PollerSpec == Init /\ [][PollerNext]_vars

\* The client with callers of CreateMetaNode beside the poller.
SubmitNext ==
  \/ PollerNext
  \/ CreateMetaNode
  \/ \E ok \in BOOLEAN : MetaNodeExec(ok)

SubmitSpec == Init /\ [][SubmitNext]_vars

\* A step of the client in a test: a CreateDatabase that returns in the step
\* is written down with its name and error.
Logged(A) ==
  /\ A
  /\ returned' =
       IF \E c \in Callers : calls[c].pc # "done" /\ calls'[c].pc = "done"
         THEN LET c == CHOOSE c \in Callers :
                         calls[c].pc # "done" /\ calls'[c].pc = "done"
              IN Append(returned, [op |-> "CreateDatabase",
                                   name |-> calls'[c].name,
                                   err |-> calls'[c].ret.err])
         ELSE returned
  /\ UNCHANGED <<auditVars, mcall, localVars, queryVars, suiteVars>>

\* A test of service_test.go: one service, one client of it, and the test's
\* goroutine making its calls one after the other.
ServiceNext ==
  \/ Logged(Open)
  \/ \E j \in 0..Len(storeDBs) : Logged(SnapshotOk(j))
  \/ Logged(SnapshotErr)
  \/ Logged(OpenInstall)
  \/ Logged(pollForUpdates)
  \/ \E c \in Callers, name \in DBNames :
       Len(returned) < MaxCalls /\ Logged(CreateDatabase(c, name))
  \/ \E c \in Callers, answered \in BOOLEAN : Logged(ExecApplied(c, answered))
  \/ \E c \in Callers : Logged(ExecFailed(c))
  \/ \E c \in Callers : Logged(AwaitChange(c))
  \/ \E c \in Callers : Logged(ReturnDatabase(c))
  \/ \E c \in Callers, name \in DBNames : DropDatabase(c, name)
  \/ \E c \in Callers : CallAgain(c)

\* newServiceAndClient: a fresh service and a client with that one server.
ServiceInit == Init /\ ClientAtStart(ServerList(1))

ServiceSpec == ServiceInit /\ [][ServiceNext]_vars

\* TestMain's call of newlocal, with any node counts.
ConstructNext ==
  \/ newlocalCheck
  \/ \E ok \in BOOLEAN : newlocalTempDir(ok)
  \/ \E failed \in WriteFailures : newlocalWrite(failed)
  \/ newlocalReturn

\* The fields of the local that is not made yet are at their zero values.
ConstructInit ==
  /\ ClientInit
  /\ ClientAtStart(ServerList(NumServers))
  /\ newlocal(0)
  /\ args \in [hybridN : Counts, metaN : Counts, dataN : Counts]
  /\ cpc = "check"
  /\ created = 0
  /\ cerr = "none"
  /\ ScenarioAtRest
  /\ HelpersAtRest

ConstructSpec == ConstructInit /\ [][ConstructNext]_vars

\* ------------------------------------------------------------------ harness
\* local.Start and local.Stop, their first statement: c.mu.Lock().
Lock(method) ==
  /\ muWriter = "none"
  /\ muReaders = 0
  /\ muWriter' = method
  /\ lret' = NoReturn
  /\ UNCHANGED <<dataN, running, clients, dataNodes, muReaders, live, queryVars,
                 metaVars>>

\* local.Start under the lock, and the deferred Unlock. A running cluster is
\* left alone. Else startNodes starts the processes one by one and stops at
\* the first that does not start (launched of them are in c.cmds then), and
\* mapServers maps the servers or fails (mapped); then a client is opened
\* for every mapped node, and when NewHTTPClient fails for one of them Start
\* returns with the clients it opened so far (made) and the cluster not
\* running.
Start(launched, mapped, made) ==
  /\ muWriter = "Start"
  /\ muWriter' = "none"
  /\ IF running
       THEN /\ lret' = [op |-> "Start", err |-> "nil"]
            /\ UNCHANGED <<running, clients, dataNodes, live>>
       ELSE /\ launched \in 0..dataN
            /\ live + launched <= MaxLive
            /\ live' = live + launched
            /\ IF launched < dataN \/ ~mapped
                 THEN /\ lret' = [op |-> "Start", err |-> "error"]
                      /\ UNCHANGED <<running, clients, dataNodes>>
                 ELSE /\ dataNodes' = 1..dataN
                      /\ made \subseteq dataNodes'
                      /\ clients' = clients \cup made
                      /\ running' = (made = dataNodes')
                      /\ lret' = [op |-> "Start",
                                  err |-> IF running' THEN "nil" ELSE "error"]
  /\ UNCHANGED <<dataN, muReaders, queryVars, metaVars>>

\* local.Stop without its check of c.running.
StopNoCheck ==
  /\ muWriter = "Stop"
  /\ muWriter' = "none"
  /\ clients' = {}
  /\ live' = 0
  /\ running' = FALSE
  /\ lret' = [op |-> "Stop", err |-> "nil"]
  /\ UNCHANGED <<dataN, dataNodes, muReaders, queryVars, metaVars>>

\* local.Stop under the lock, and the deferred Unlock. A cluster that is not
\* running is left alone. Else every client is closed and deleted and every
\* process of c.cmds is sent the interrupt.
Stop ==
  /\ muWriter = "Stop"
  /\ muWriter' = "none"
  /\ IF running
       THEN /\ clients' = {}
            /\ live' = 0
            /\ running' = FALSE
            /\ lret' = [op |-> "Stop", err |-> "nil"]
       ELSE /\ lret' = [op |-> "Stop", err |-> "nil"]
            /\ UNCHANGED <<running, clients, live>>
  /\ UNCHANGED <<dataN, dataNodes, muReaders, queryVars, metaVars>>

\* local.query: the response for node id. Without a client for the node the
\* response carries an error; else what the node answers.
QueryOutcomes == {"nil", "query failed"}

query(id, outcome) ==
  IF id \notin clients
    THEN [nodeID |-> id, err |-> "cannot find client"]
    ELSE [nodeID |-> id, err |-> outcome]

\* QueryAll with a channel that has no buffer.
QueryAllUnbuffered ==
  /\ qpc \in {"idle", "finished"}
  /\ muWriter = "none"
  /\ muReaders' = muReaders + 1
  /\ qpc' = "loop"
  /\ toSpawn' = dataNodes
  /\ targets' = dataNodes
  /\ chCap' = 0
  /\ ch' = <<>>
  /\ chClosed' = FALSE
  /\ wg' = 0
  /\ wpc' = [id \in Nodes |-> "none"]
  /\ wresp' = [id \in Nodes |-> NoResponse]
  /\ closer' = "none"
  /\ received' = <<>>
  /\ UNCHANGED <<dataN, running, clients, dataNodes, procVars, metaVars>>

\* QueryAll, its head: RLock, make(chan response, len(c.dataNodes)) and a
\* new WaitGroup.
QueryAll ==
  /\ qpc \in {"idle", "finished"}
  /\ muWriter = "none"
  /\ muReaders' = muReaders + 1
  /\ qpc' = "loop"
  /\ toSpawn' = dataNodes
  /\ targets' = dataNodes
  /\ chCap' = Cardinality(dataNodes)
  /\ ch' = <<>>
  /\ chClosed' = FALSE
  /\ wg' = 0
  /\ wpc' = [id \in Nodes |-> "none"]
  /\ wresp' = [id \in Nodes |-> NoResponse]
  /\ closer' = "none"
  /\ received' = <<>>
  /\ UNCHANGED <<dataN, running, clients, dataNodes, procVars, metaVars>>

\* QueryAll, one pass of `for id := range c.dataNodes`: wg.Add(1) and go.
QueryAllGo(id) ==
  /\ qpc = "loop"
  /\ id \in toSpawn
  /\ toSpawn' = toSpawn \ {id}
  /\ wg' = wg + 1
  /\ wpc' = [wpc EXCEPT ![id] = "start"]
  /\ UNCHANGED <<localVars, qpc, targets, chCap, ch, chClosed, wresp, closer,
                 received, metaVars>>

\* QueryAll, its end: go func() { wg.Wait(); close(ch) }(), return ch, and
\* the deferred RUnlock. The caller now ranges over ch.
QueryAllReturn ==
  /\ qpc = "loop"
  /\ toSpawn = {}
  /\ closer' = "wait"
  /\ muReaders' = muReaders - 1
  /\ qpc' = "range"
  /\ UNCHANGED <<dataN, running, clients, dataNodes, procVars, toSpawn, targets, chCap, ch,
                 chClosed, wg, wpc, wresp, received, metaVars>>

\* The goroutine of id: c.Query takes the read lock.
QueryRLock(id) ==
  /\ wpc[id] = "start"
  /\ muWriter = "none"
  /\ muReaders' = muReaders + 1
  /\ wpc' = [wpc EXCEPT ![id] = "query"]
  /\ UNCHANGED <<dataN, running, clients, dataNodes, procVars, qpc, toSpawn, targets, chCap,
                 ch, chClosed, wg, wresp, closer, received, metaVars>>

\* The goroutine of id: c.query under the read lock, RUnlock, and Query
\* returns the response.
Query(id, outcome) ==
  /\ wpc[id] = "query"
  /\ wresp' = [wresp EXCEPT ![id] = query(id, outcome)]
  /\ muReaders' = muReaders - 1
  /\ wpc' = [wpc EXCEPT ![id] = "send"]
  /\ UNCHANGED <<dataN, running, clients, dataNodes, procVars, qpc, toSpawn, targets, chCap,
                 ch, chClosed, wg, closer, received, metaVars>>

\* The goroutine of id with the response dropped when it carries an error.
SendUnlessErr(id) ==
  /\ wpc[id] = "send"
  /\ Len(ch) < chCap
  /\ ~chClosed
  /\ ch' = IF wresp[id].err = "nil" THEN Append(ch, wresp[id]) ELSE ch
  /\ wpc' = [wpc EXCEPT ![id] = "sent"]
  /\ UNCHANGED <<localVars, qpc, toSpawn, targets, chCap, chClosed, wg, wresp,
                 closer, received, metaVars>>

\* The goroutine of id: ch <- response. The send waits while the buffer is
\* full.
Send(id) ==
  /\ wpc[id] = "send"
  /\ Len(ch) < chCap
  /\ ~chClosed
  /\ ch' = Append(ch, wresp[id])
  /\ wpc' = [wpc EXCEPT ![id] = "sent"]
  /\ UNCHANGED <<localVars, qpc, toSpawn, targets, chCap, chClosed, wg, wresp,
                 closer, received, metaVars>>

\* The goroutine of id: the deferred wg.Done().
Done(id) ==
  /\ wpc[id] = "sent"
  /\ wg' = wg - 1
  /\ wpc' = [wpc EXCEPT ![id] = "done"]
  /\ UNCHANGED <<localVars, qpc, toSpawn, targets, chCap, ch, chClosed, wresp,
                 closer, received, metaVars>>

\* The closing goroutine: wg.Wait() returns when the counter is 0; close(ch).
CloseWhenDone ==
  /\ closer = "wait"
  /\ wg = 0
  /\ chClosed' = TRUE
  /\ closer' = "done"
  /\ UNCHANGED <<localVars, qpc, toSpawn, targets, chCap, ch, wg, wpc, wresp,
                 received, metaVars>>

\* The caller's `for resp := range ch`: one response received.
Receive ==
  /\ qpc = "range"
  /\ ch # <<>>
  /\ received' = Append(received, Head(ch))
  /\ ch' = Tail(ch)
  /\ UNCHANGED <<localVars, qpc, toSpawn, targets, chCap, chClosed, wg, wpc,
                 wresp, closer, metaVars>>

\* The caller's range loop ends: ch is closed and empty.
RangeEnds ==
  /\ qpc = "range"
  /\ ch = <<>>
  /\ chClosed
  /\ qpc' = "finished"
  /\ UNCHANGED <<localVars, toSpawn, targets, chCap, ch, chClosed, wg, wpc,
                 wresp, closer, received, metaVars>>

ClusterNext ==
  \/ \E method \in {"Start", "Stop"} : Lock(method)
  \/ \E launched \in 0..MaxNodes, mapped \in BOOLEAN, made \in SUBSET Nodes :
       Start(launched, mapped, made)
  \/ Stop
  \/ QueryAll
  \/ \E id \in Nodes : QueryAllGo(id)
  \/ QueryAllReturn
  \/ \E id \in Nodes : QueryRLock(id)
  \/ \E id \in Nodes, outcome \in QueryOutcomes : Query(id, outcome)
  \/ \E id \in Nodes : Send(id)
  \/ \E id \in Nodes : Done(id)
  \/ CloseWhenDone
  \/ Receive
  \/ RangeEnds

\* The test cluster of any size, with a meta client that is left alone.
ClusterInit ==
  /\ ClientInit
  /\ ClientAtStart(ServerList(NumServers))
  /\ \E n \in Nodes : newlocal(n)
  /\ SuiteAtRest

\* The scheduler lets every goroutine of QueryAll and its caller run; Start
\* and Stop are called or not, and a call that has the lock comes to its
\* end. A goroutine that waits in RLock gets the lock when a writer unlocks
\* (sync.RWMutex wakes the waiting readers first), however often Start and
\* Stop are called.
ClusterSpec ==
  /\ ClusterInit
  /\ [][ClusterNext]_vars
  /\ WF_vars(\E launched \in 0..MaxNodes, mapped \in BOOLEAN, made \in SUBSET Nodes :
               Start(launched, mapped, made))
  /\ WF_vars(Stop)
  /\ WF_vars(QueryAllReturn)
  /\ WF_vars(CloseWhenDone)
  /\ WF_vars(Receive)
  /\ WF_vars(RangeEnds)
  /\ \A id \in Nodes :
       /\ WF_vars(QueryAllGo(id))
       /\ SF_vars(QueryRLock(id))
       /\ WF_vars(\E outcome \in QueryOutcomes : Query(id, outcome))
       /\ WF_vars(Send(id))
       /\ WF_vars(Done(id))

\* The same cluster with a caller of QueryAll that reads when it likes: it may
\* stop ranging over the channel early or never start. The goroutines of
\* QueryAll are scheduled as before.
FanOutSpec ==
  /\ ClusterInit
  /\ [][ClusterNext]_vars
  /\ WF_vars(\E launched \in 0..MaxNodes, mapped \in BOOLEAN, made \in SUBSET Nodes :
               Start(launched, mapped, made))
  /\ WF_vars(Stop)
  /\ WF_vars(QueryAllReturn)
  /\ WF_vars(CloseWhenDone)
  /\ \A id \in Nodes :
       /\ WF_vars(QueryAllGo(id))
       /\ SF_vars(QueryRLock(id))
       /\ WF_vars(\E outcome \in QueryOutcomes : Query(id, outcome))
       /\ WF_vars(Send(id))
       /\ WF_vars(Done(id))

\* The client and the cluster at rest, beside a helper function under test.
AllButFunAtRest ==
  /\ ClientInit
  /\ ClientAtStart(ServerList(NumServers))
  /\ newlocal(0)
  /\ args = NoArgs
  /\ cpc = "returned"
  /\ created = 0
  /\ cerr = "none"
  /\ ScenarioAtRest
  /\ LockAtRest
  /\ MapAtRest

\* ------------------------------------------------------------------ strings
\* A Go string is the sequence of its characters.
DigitChars == <<"0", "1", "2", "3", "4", "5", "6", "7", "8", "9">>

IsDigit(c) == \E d \in 1..10 : DigitChars[d] = c

DigitVal(c) == (CHOOSE d \in 1..10 : DigitChars[d] = c) - 1

\* The value of a sequence of digits, most significant first.
RECURSIVE DigitsVal(_)
DigitsVal(ds) ==
  IF ds = <<>> THEN 0
  ELSE 10 * DigitsVal(SubSeq(ds, 1, Len(ds) - 1)) + DigitVal(ds[Len(ds)])

\* strconv.Atoi: an optional sign and then one digit or more, nothing else.
Atoi(str) ==
  LET signed == str # <<>> /\ Head(str) \in {"+", "-"}
      ds     == IF signed THEN Tail(str) ELSE str
  IN  IF ds = <<>> \/ \E k \in 1..Len(ds) : ~IsDigit(ds[k])
        THEN [val |-> 0, err |-> "invalid syntax"]
        ELSE [val |-> IF signed /\ Head(str) = "-" THEN 0 - DigitsVal(ds)
                                                  ELSE DigitsVal(ds),
              err |-> "nil"]

\* fmt.Sprintf("%d", n).
RECURSIVE NatDigits(_)
NatDigits(n) ==
  IF n < 10 THEN <<DigitChars[n + 1]>>
  ELSE Append(NatDigits(n \div 10), DigitChars[(n % 10) + 1])

Itoa(n) == IF n < 0 THEN <<"-">> \o NatDigits(0 - n) ELSE NatDigits(n)

\* strings.Split(str, sep) for a separator of one character: the pieces
\* between the separators, one piece more than there are separators.
RECURSIVE Split(_, _)
Split(str, sep) ==
  IF \A k \in 1..Len(str) : str[k] # sep
    THEN <<str>>
    ELSE LET at == CHOOSE k \in 1..Len(str) :
                     str[k] = sep /\ \A j \in 1..(k - 1) : str[j] # sep
         IN  <<SubSeq(str, 1, at - 1)>> \o Split(SubSeq(str, at + 1, Len(str)), sep)

\* ------------------------------------------------------------------ ports
\* shiftPort without the test of the number of parts: the last part is the
\* port and the first the host.
shiftPortAnyParts(in, delta) ==
  LET parts == Split(in, ":")
      port  == Atoi(parts[Len(parts)])
  IN  IF port.err # "nil"
        THEN [str |-> <<>>, err |-> port.err]
        ELSE IF Len(parts) = 1
          THEN [str |-> Itoa(port.val + delta), err |-> "nil"]
          ELSE [str |-> parts[1] \o <<":">> \o Itoa(port.val + delta),
                err |-> "nil"]

\* shiftPort(in, delta): the address with delta added to its port, or the
\* empty string and an error.
shiftPort(in, delta) ==
  LET parts == Split(in, ":")
      port  == Atoi(parts[Len(parts)])
  IN  IF Len(parts) > 2
        THEN [str |-> <<>>, err |-> "cannot parse"]
        ELSE IF port.err # "nil"
          THEN [str |-> <<>>, err |-> port.err]
          ELSE IF Len(parts) = 1
            THEN [str |-> Itoa(port.val + delta), err |-> "nil"]
            ELSE [str |-> parts[1] \o <<":">> \o Itoa(port.val + delta),
                  err |-> "nil"]

\* ptoi(s): the port of the address. strings.Split returns one part at
\* least, so the test i < 0 never holds.
ptoi(str) ==
  LET parts == Split(str, ":")
      i     == Len(parts) - 1
  IN  IF i < 0
        THEN [val |-> 0, err |-> "cannot extract port"]
        ELSE Atoi(parts[i + 1])

\* The addresses and the deltas the two functions are tried on.
AddrChars == {"h", ":", "8", "0", "-"}

Addrs == UNION {[1..n -> AddrChars] : n \in 0..MaxAddrLen}

Deltas == {-100, 0, 300}

\* A test calls shiftPort and ptoi on the address.
ShiftAndExtract ==
  /\ fout = <<>>
  /\ fout' = [shifted |-> shiftPort(fin.in, fin.delta), port |-> ptoi(fin.in)]
  /\ UNCHANGED <<fin, localVars, queryVars, clientVars, pollVars, storeVars,
                 calls, panicked, auditVars, apiVars, constructVars,
                 scenarioVars, lockVars, mapVars>>

PortInit ==
  /\ AllButFunAtRest
  /\ fin \in [in : Addrs, delta : Deltas]
  /\ fout = <<>>

PortSpec == PortInit /\ [][ShiftAndExtract]_vars

\* ------------------------------------------------------------------ join
Localhost == <<"l", "o", "c", "a", "l", "h", "o", "s", "t">>

\* The loop of generateJoinArg from the pass of i on, join being the string
\* built so far.
RECURSIVE JoinFrom(_, _, _, _)
JoinFrom(join, i, n, seedPort) ==
  IF i <= n * portJump
    THEN LET entry == join \o Localhost \o <<":">> \o Itoa(i + seedPort)
         IN  JoinFrom(IF i + portJump <= n * portJump
                        THEN entry \o <<",">> ELSE entry,
                      i + portJump, n, seedPort)
    ELSE join

\* generateJoinArg with a loop that starts at 0.
generateJoinArgFromZero(n, seedPort) == JoinFrom(<<>>, 0, n, seedPort)

generateJoinArg(n, seedPort) == JoinFrom(<<>>, portJump, n, seedPort)

\* The part of a node's configuration that newConfig derives from the
\* node's number and type: whether the node is a meta node, and the
\* address its meta service listens on.
newConfig(i, nt, bind) ==
  [nt |-> nt,
   metaEnabled |-> nt \in {"meta", "hybrid"},
   metaHTTPBindAddress |-> shiftPort(bind, i * portJump).str]

\* The type newlocal gives the node of number id.
NodeType(id, hybridN, metaN) ==
  IF id <= hybridN THEN "hybrid"
  ELSE IF id <= hybridN + metaN THEN "meta" ELSE "data"

\* The default address of the meta service: a bind address with a port.
BindAddresses == {<<":", "8", "0", "9", "1">>, <<":", "0">>,
                  <<"h", ":", "8", "0">>}

\* The seed ports the function is called with directly.
SeedPorts == {0, 80, 8091}

\* generateJoinArg is called as the test calls it.
JoinArg ==
  /\ fout = <<>>
  /\ fin.call = "generateJoinArg"
  /\ fout' = [join |-> generateJoinArg(fin.n, fin.seedPort)]
  /\ UNCHANGED <<fin, localVars, queryVars, clientVars, pollVars, storeVars,
                 calls, panicked, auditVars, apiVars, constructVars,
                 scenarioVars, lockVars, mapVars>>

\* newlocal up to the configurations of the nodes: it panics on too few
\* nodes, and otherwise builds the join argument and gives it to the
\* configuration of every node.
Configure ==
  /\ fout = <<>>
  /\ fin.call = "newlocal"
  /\ fout' =
       IF fin.metaN + fin.hybridN < MinMetaNodes
         THEN [panic |-> "cluster must have at least three meta nodes"]
       ELSE IF fin.dataN + fin.hybridN < MinDataNodes
         THEN [panic |-> "cluster must have at least one data node"]
       ELSE LET joinArg == generateJoinArg(fin.metaN + fin.hybridN,
                                           ptoi(fin.bind).val)
            IN  [panic |-> "none",
                 join |-> joinArg,
                 nodeConfs |->
                   [id \in 1..(fin.hybridN + fin.metaN + fin.dataN) |->
                      [conf |-> newConfig(id, NodeType(id, fin.hybridN, fin.metaN),
                                          fin.bind),
                       join |-> joinArg]]]
  /\ UNCHANGED <<fin, localVars, queryVars, clientVars, pollVars, storeVars,
                 calls, panicked, auditVars, apiVars, constructVars,
                 scenarioVars, lockVars, mapVars>>

JoinNext == JoinArg \/ Configure

JoinInit ==
  /\ AllButFunAtRest
  /\ \/ \E n \in 0..MaxCount, seedPort \in SeedPorts :
          fin = [call |-> "generateJoinArg", n |-> n, seedPort |-> seedPort]
     \/ \E nh \in 0..MaxCount, nm \in 0..MaxCount,
           nd \in 0..MaxCount, bind \in BindAddresses :
          fin = [call |-> "newlocal", hybridN |-> nh, metaN |-> nm,
                 dataN |-> nd, bind |-> bind]
  /\ fout = <<>>

JoinSpec == JoinInit /\ [][JoinNext]_vars

\* ------------------------------------------------------------------ results
\* parseResult of commands.go. A client.Result is the sequence of its
\* series; a series (models.Row) has a Name, Columns and Values, and a cell
\* of a row of Values is a string or a json.Number.
Commands == {"ShowServers", "ShowDatabases", "ShowMeasurements", "ShowSeries",
             "ShowTagKeys", "ShowTagValues", "ShowFieldKeys"}

StringCell(v) == [t |-> "string", v |-> v]
NumberCell(v) == [t |-> "json.Number", v |-> v]

\* res := &commandResult{...}: maps and slices without an entry.
NewCommandResult ==
  [dataServers |-> <<>>, metaServers |-> <<>>, databases |-> <<>>,
   measurements |-> <<>>, series |-> <<>>, tagKeys |-> <<>>,
   tagValues |-> <<>>, fieldKeys |-> <<>>]

\* return res, nil and return nil, err.
Parsed(res)    == [isNil |-> FALSE, result |-> res, err |-> "nil"]
ParseErr(what) == [isNil |-> TRUE, result |-> NewCommandResult, err |-> what]

\* m[k] = v, and m[k] = append(m[k], v), for a map m.
Put(m, k, v) == [x \in DOMAIN m \cup {k} |-> IF x = k THEN v ELSE m[x]]

AppendAt(m, k, v) ==
  Put(m, k, Append(IF k \in DOMAIN m THEN m[k] ELSE <<>>, v))

\* columnIDX(s, columns): the index, from 0, of the first column called s,
\* or -1 and an error.
columnIDX(str, columns) ==
  IF \E i \in 1..Len(columns) : columns[i] = str
    THEN [idx |-> (CHOOSE i \in 1..Len(columns) :
                     /\ columns[i] = str
                     /\ \A j \in 1..(i - 1) : columns[j] # str) - 1,
          err |-> "nil"]
    ELSE [idx |-> -1, err |-> "can't find column"]

\* toInt(v): the int of a json.Number, or an error.
toInt(cell) ==
  IF cell.t = "json.Number"
    THEN [val |-> DigitVal(cell.v), err |-> "nil"]
    ELSE [val |-> 0, err |-> "could not assert as json.Number"]

\* The column that every command but SHOW SERVERS reads, the field of the
\* commandResult it fills, and whether the field is a map keyed by the name
\* of the series.
ColumnOf(c) ==
  CASE c = "ShowDatabases"    -> "name"
    [] c = "ShowMeasurements" -> "name"
    [] c = "ShowSeries"       -> "_key"
    [] c = "ShowTagKeys"      -> "tagKey"
    [] c = "ShowTagValues"    -> "tagValue"
    [] c = "ShowFieldKeys"    -> "fieldKey"

\* The body of parseResult's inner loop for one row (value) of series row:
\* the result with the row added, or the error parseResult returns.
ParseValue(c, res, row, value) ==
  IF Len(value) = 0 THEN ParseErr("value is empty")
  ELSE IF c = "ShowServers"
    THEN LET idIDX   == columnIDX("id", row.Columns)
             addrIDX == columnIDX("http_addr", row.Columns)
         IN  IF idIDX.err # "nil" THEN ParseErr(idIDX.err)
             ELSE IF addrIDX.err # "nil" THEN ParseErr(addrIDX.err)
             ELSE LET id   == toInt(value[idIDX.idx + 1])
                      addr == value[addrIDX.idx + 1]
                  IN  IF id.err # "nil" THEN ParseErr(id.err)
                      ELSE IF addr.t # "string"
                        THEN ParseErr("could not parse as string")
                      ELSE IF row.Name = "data_nodes"
                        THEN Parsed([res EXCEPT !.dataServers =
                                       Put(@, id.val, addr.v)])
                      ELSE IF row.Name = "meta_nodes"
                        THEN Parsed([res EXCEPT !.metaServers =
                                       Put(@, id.val, addr.v)])
                      ELSE ParseErr("unknown row name")
    ELSE LET at == columnIDX(ColumnOf(c), row.Columns)
         IN  IF at.err # "nil" THEN ParseErr(at.err)
             ELSE LET cell == value[at.idx + 1]
                  IN  IF cell.t # "string"
                        THEN ParseErr("could not parse as string")
                        ELSE Parsed(
                          CASE c = "ShowDatabases" ->
                                 [res EXCEPT !.databases = Append(@, cell.v)]
                            [] c = "ShowMeasurements" ->
                                 [res EXCEPT !.measurements = Append(@, cell.v)]
                            [] c = "ShowSeries" ->
                                 [res EXCEPT !.series = AppendAt(@, row.Name, cell.v)]
                            [] c = "ShowTagKeys" ->
                                 [res EXCEPT !.tagKeys = AppendAt(@, row.Name, cell.v)]
                            [] c = "ShowTagValues" ->
                                 [res EXCEPT !.tagValues = AppendAt(@, row.Name, cell.v)]
                            [] c = "ShowFieldKeys" ->
                                 [res EXCEPT !.fieldKeys = AppendAt(@, row.Name, cell.v)])

\* `for _, value := range row.Values`, from the k-th row on.
RECURSIVE ParseValues(_, _, _, _)
ParseValues(c, res, row, k) ==
  IF k > Len(row.Values) THEN Parsed(res)
  ELSE LET one == ParseValue(c, res, row, row.Values[k])
       IN  IF one.err # "nil" THEN one
           ELSE ParseValues(c, one.result, row, k + 1)

\* `for _, row := range result.Series`, from the k-th series on.
RECURSIVE ParseSeries(_, _, _, _)
ParseSeries(c, res, series, k) ==
  IF k > Len(series) THEN Parsed(res)
  ELSE LET one == ParseValues(c, res, series[k], 1)
       IN  IF one.err # "nil" THEN one
           ELSE ParseSeries(c, one.result, series, k + 1)

\* parseResult(c, result).
parseResult(c, series) == ParseSeries(c, NewCommandResult, series, 1)

\* The results parseResult is tried on. The columns of a series are the
\* columns the command reads and one it does not, any of them, in any order;
\* a row has a cell for each column, or none at all.
ColumnNames(c) ==
  IF c = "ShowServers" THEN {"id", "http_addr", "other"}
  ELSE {ColumnOf(c), "other"}

ColumnLists(c) ==
  {cols \in UNION {[1..n -> ColumnNames(c)] : n \in 0..Cardinality(ColumnNames(c))} :
     \A i, j \in 1..Len(cols) : i # j => cols[i] # cols[j]}

Cells == {StringCell("a"), StringCell("b"), NumberCell("1")}

RowsOf(cols) == [1..Len(cols) -> Cells] \cup {<<>>}

SeriesNames == {"data_nodes", "meta_nodes", "cpu"}

SeriesOf(c) ==
  UNION {[Name : SeriesNames, Columns : {cols},
          Values : UNION {[1..n -> RowsOf(cols)] : n \in 0..MaxRows}] :
         cols \in ColumnLists(c)}

\* A series of one row that the command parses.
GoodSeries(c) ==
  IF c = "ShowServers"
    THEN [Name |-> "meta_nodes", Columns |-> <<"id", "http_addr">>,
          Values |-> <<<<NumberCell("2"), StringCell("b")>>>>]
    ELSE [Name |-> "mem", Columns |-> <<ColumnOf(c)>>,
          Values |-> <<<<StringCell("b")>>>>]

\* A test calls parseResult on a result of one series, alone or after a
\* series that parses.
Parse ==
  /\ fout = <<>>
  /\ fout' = parseResult(fin.cmd, fin.series)
  /\ UNCHANGED <<fin, localVars, queryVars, clientVars, pollVars, storeVars,
                 calls, panicked, auditVars, apiVars, constructVars,
                 scenarioVars, lockVars, mapVars>>

ParseInit ==
  /\ AllButFunAtRest
  /\ \E c \in Commands : \E one \in SeriesOf(c), after \in BOOLEAN :
       fin = [cmd |-> c,
              series |-> IF after THEN <<GoodSeries(c), one>> ELSE <<one>>]
  /\ fout = <<>>

ParseSpec == ParseInit /\ [][Parse]_vars

\* ------------------------------------------------------------------ checks
\* HasTagKeys, HasTagValues and HasFieldKeys of a parsed result. The keys
\* are strings; KeyOrder lists them in the order of Go's < on strings.
KeyOrder == <<"host", "region", "zone">>

Keys == {KeyOrder[k] : k \in 1..Len(KeyOrder)}

Rank(key) == CHOOSE k \in 1..Len(KeyOrder) : KeyOrder[k] = key

\* sort.Strings(a): a in increasing order.
RECURSIVE SortStrings(_)
SortStrings(a) ==
  IF a = <<>> THEN <<>>
  ELSE LET rest == SortStrings(Tail(a))
           n    == Cardinality({k \in 1..Len(rest) : Rank(rest[k]) < Rank(Head(a))})
       IN  SubSeq(rest, 1, n) \o <<Head(a)>> \o SubSeq(rest, n + 1, Len(rest))

\* reflect.DeepEqual of two []string that are not nil.
DeepEqual(a, b) == Len(a) = Len(b) /\ \A k \in 1..Len(a) : a[k] = b[k]

\* The check of one of the three maps of a commandResult: whether the
\* entry of measure holds the expected strings only, and the two slices as
\* the call leaves them, sorted in place.
HasOnly(m, measure, expected) ==
  IF measure \notin DOMAIN m
    THEN [ret |-> FALSE, entries |-> m, expected |-> expected]
    ELSE IF Len(m[measure]) # Len(expected)
      THEN [ret |-> FALSE, entries |-> m, expected |-> expected]
      ELSE [ret |-> DeepEqual(SortStrings(m[measure]), SortStrings(expected)),
            entries |-> [m EXCEPT ![measure] = SortStrings(@)],
            expected |-> SortStrings(expected)]

\* HasTagKeys without the two calls of sort.Strings.
HasTagKeysNoSort(r, measure, tagKeys) ==
  IF measure \notin DOMAIN r.tagKeys
    THEN [ret |-> FALSE, entries |-> r.tagKeys, expected |-> tagKeys]
    ELSE [ret |-> DeepEqual(r.tagKeys[measure], tagKeys),
          entries |-> r.tagKeys, expected |-> tagKeys]

HasTagKeys(r, measure, tagKeys) == HasOnly(r.tagKeys, measure, tagKeys)

HasTagValues(r, measure, tagValues) == HasOnly(r.tagValues, measure, tagValues)

HasFieldKeys(r, measure, fieldKeys) == HasOnly(r.fieldKeys, measure, fieldKeys)

\* The three methods and the map each of them reads.
Checks == {"HasTagKeys", "HasTagValues", "HasFieldKeys"}

Measurements == {"cpu", "mem"}

\* What parseResult leaves in such a map: an entry for a measurement has
\* one string at least.
KeyLists == UNION {[1..n -> Keys] : n \in 0..MaxKeys}

ParsedWith(fn, measure, tks) ==
  LET m == [x \in {measure} |-> tks]
  IN  CASE fn = "HasTagKeys"   -> [NewCommandResult EXCEPT !.tagKeys = m]
        [] fn = "HasTagValues" -> [NewCommandResult EXCEPT !.tagValues = m]
        [] fn = "HasFieldKeys" -> [NewCommandResult EXCEPT !.fieldKeys = m]

\* A test calls one of the three methods on a parsed result.
Has ==
  /\ fout = <<>>
  /\ fout' = CASE fin.fn = "HasTagKeys" ->
                   HasTagKeys(fin.r, fin.measure, fin.expected)
              [] fin.fn = "HasTagValues" ->
                   HasTagValues(fin.r, fin.measure, fin.expected)
              [] fin.fn = "HasFieldKeys" ->
                   HasFieldKeys(fin.r, fin.measure, fin.expected)
  /\ UNCHANGED <<fin, localVars, queryVars, clientVars, pollVars, storeVars,
                 calls, panicked, auditVars, apiVars, constructVars,
                 scenarioVars, lockVars, mapVars>>

HasInit ==
  /\ AllButFunAtRest
  /\ \E fn \in Checks, parsedFor \in Measurements, tks \in KeyLists \ {<<>>},
        expected \in KeyLists :
       fin = [fn |-> fn, r |-> ParsedWith(fn, parsedFor, tks),
              measure |-> "cpu", expected |-> expected]
  /\ fout = <<>>

HasSpec == HasInit /\ [][Has]_vars

\* ------------------------------------------------------------------ mapping
\* local.mapServers: SHOW SERVERS is sent to the entry node until the answer
\* lists the expected nodes, with a growing delay between the checks and the
\* timeout beside them.
MapTimeout == "timed out waiting for all servers"
NoResults  == "expected some results"

\* What one check can get: an error of clt.Query, a response with an error,
\* a response without results, a result parseResult returns an error for,
\* or a result it parses, with the number of meta nodes and the ids of the
\* data nodes in it.
ShowServersAnswers ==
  [kind : {"query error", "response error", "no results", "parse error"},
   meta : {0}, data : {{}}]
    \cup [kind : {"parsed"}, meta : 0..MaxCount, data : SUBSET Nodes]

\* mapServers is called by Start: tc = time.After(timeout) and
\* check = time.After(0).
mapServers ==
  /\ mapping.pc \in {"idle", "returned"}
  /\ mapping' = [NoMapping EXCEPT !.pc = "select", !.metaN = mapping.metaN]
  /\ UNCHANGED dataNodes

\* The timeout passes: tc can be received from.
TimeoutFires ==
  /\ mapping.pc = "select"
  /\ ~mapping.timedOut
  /\ mapping' = [mapping EXCEPT !.timedOut = TRUE]
  /\ UNCHANGED dataNodes

\* The delay of the next check passes: check can be received from.
CheckFires ==
  /\ mapping.pc = "select"
  /\ ~mapping.checkDue
  /\ mapping' = [mapping EXCEPT !.checkDue = TRUE]
  /\ UNCHANGED dataNodes

\* select takes `case <-tc`.
MapTimedOut ==
  /\ mapping.pc = "select"
  /\ mapping.timedOut
  /\ mapping' = [mapping EXCEPT !.pc = "returned", !.err = MapTimeout]
  /\ UNCHANGED dataNodes

\* check = time.After(d); retries++; continue.
Backoff(m, answer) ==
  [m EXCEPT !.checkDue = FALSE, !.retries = @ + 1, !.answer = answer]

\* `case <-check` with every parsed result taken as complete.
MapCheckNoCount(answer) ==
  /\ mapping.pc = "select"
  /\ mapping.checkDue
  /\ answer.kind = "parsed"
  /\ dataNodes' = answer.data
  /\ mapping' = [mapping EXCEPT !.pc = "returned", !.err = "nil",
                                 !.checkDue = FALSE, !.answer = answer]

\* select takes `case <-check`: one SHOW SERVERS and what mapServers does
\* with the answer. After a parse error result is nil, and the arguments of
\* the Printf of the retry read result.metaServers: a nil dereference.
MapCheck(answer) ==
  /\ mapping.pc = "select"
  /\ mapping.checkDue
  /\ CASE answer.kind = "query error" ->
            /\ mapping.retries < MaxRetries
            /\ mapping' = Backoff(mapping, answer)
            /\ UNCHANGED dataNodes
       [] answer.kind = "response error" ->
            /\ mapping' = [mapping EXCEPT !.pc = "returned", !.err = answer.kind,
                                           !.checkDue = FALSE, !.answer = answer]
            /\ UNCHANGED dataNodes
       [] answer.kind = "no results" ->
            /\ mapping' = [mapping EXCEPT !.pc = "returned", !.err = NoResults,
                                           !.checkDue = FALSE, !.answer = answer]
            /\ UNCHANGED dataNodes
       [] answer.kind = "parse error" ->
            /\ mapping' = [mapping EXCEPT !.pc = "panicked", !.err = "nil dereference",
                                           !.checkDue = FALSE, !.answer = answer]
            /\ UNCHANGED dataNodes
       [] OTHER ->
            IF answer.meta < mapping.metaN \/ Cardinality(answer.data) < dataN
              THEN /\ mapping.retries < MaxRetries
                   /\ mapping' = Backoff(mapping, answer)
                   /\ UNCHANGED dataNodes
              ELSE /\ dataNodes' = answer.data
                   /\ mapping' = [mapping EXCEPT !.pc = "returned", !.err = "nil",
                                                  !.checkDue = FALSE,
                                                  !.answer = answer]

\* What mapServers leaves alone.
offMapping == <<dataN, running, clients, muReaders, procVars, queryVars,
                clientVars, pollVars, storeVars, calls, panicked, auditVars,
                apiVars, constructVars, scenarioVars, lockVars, funVars>>

MapNext ==
  \/ mapServers /\ UNCHANGED offMapping
  \/ TimeoutFires /\ UNCHANGED offMapping
  \/ CheckFires /\ UNCHANGED offMapping
  \/ MapTimedOut /\ UNCHANGED offMapping
  \/ \E answer \in ShowServersAnswers : MapCheck(answer) /\ UNCHANGED offMapping

\* A cluster of any size that was made with metaN meta nodes, of which at
\* least MinMetaNodes.
MapInit ==
  /\ ClientInit
  /\ ClientAtStart(ServerList(NumServers))
  /\ \E n \in Nodes : newlocal(n)
  /\ args = NoArgs
  /\ cpc = "returned"
  /\ created = 0
  /\ cerr = "none"
  /\ ScenarioAtRest
  /\ LockAtRest
  /\ FunAtRest
  /\ \E m \in MinMetaNodes..MaxCount : mapping = [NoMapping EXCEPT !.metaN = m]

MapSpec == MapInit /\ [][MapNext]_vars

\* ------------------------------------------------------------------ locking
\* local.mu is a sync.RWMutex: a call of Lock that has to wait for readers
\* keeps every later RLock waiting until the writer has had the lock and
\* released it.

\* Start or Stop calls c.mu.Lock() and waits until the readers have left.
LockWait(method) ==
  /\ muWriter = "none"
  /\ muPending = "none"
  /\ muPending' = method
  /\ UNCHANGED <<localVars, queryVars, clientVars, pollVars, storeVars, calls,
                 panicked, auditVars, apiVars, constructVars, scenarioVars,
                 lpc, mapVars, funVars>>

\* The last reader has left: the waiting call of Lock returns.
LockGranted ==
  /\ muPending # "none"
  /\ muReaders = 0
  /\ muWriter' = muPending
  /\ muPending' = "none"
  /\ lret' = NoReturn
  /\ UNCHANGED <<dataN, running, clients, dataNodes, muReaders, live,
                 queryVars, clientVars, pollVars, storeVars, calls, panicked,
                 auditVars, apiVars, constructVars, scenarioVars, lpc, mapVars,
                 funVars>>

\* One step of the caller of NewDatabase or WriteAny, from position from to
\* position to, that changes the number of read locks held by by. A step
\* that takes a read lock waits while a writer has the lock or waits for it.
LockedCallStep(op, from, to, by) ==
  /\ lpc[op] = from
  /\ by > 0 => (muWriter = "none" /\ muPending = "none")
  /\ muReaders' = muReaders + by
  /\ lpc' = [lpc EXCEPT ![op] = to]
  /\ UNCHANGED <<dataN, running, clients, dataNodes, procVars, queryVars,
                 clientVars, pollVars, storeVars, calls, panicked, auditVars,
                 apiVars, constructVars, scenarioVars, muPending, mapVars,
                 funVars>>

\* NewDatabase / WriteAny: c.mu.RLock().
OuterRLock(op) == LockedCallStep(op, "idle", "outer", 1)

\* QueryAny called by NewDatabase, Write called by WriteAny: c.mu.RLock().
InnerRLock(op) == LockedCallStep(op, "outer", "inner", 1)

\* QueryAny / Write: c.query or c.write has its response, the deferred
\* RUnlock.
InnerRUnlock(op) == LockedCallStep(op, "inner", "unlock", -1)

\* NewDatabase / WriteAny return: the deferred RUnlock.
OuterRUnlock(op) == LockedCallStep(op, "unlock", "done", -1)

\* The test calls the method again.
LockedCallAgain(op) == LockedCallStep(op, "done", "idle", 0)

LockNext ==
  \/ \E method \in {"Start", "Stop"} : LockWait(method)
  \/ LockGranted
  \/ \E launched \in 0..MaxNodes, mapped \in BOOLEAN, made \in SUBSET Nodes :
       Start(launched, mapped, made)
  \/ Stop
  \/ \E op \in LockedCalls :
       \/ OuterRLock(op)
       \/ InnerRLock(op)
       \/ InnerRUnlock(op)
       \/ OuterRUnlock(op)
       \/ LockedCallAgain(op)

\* Tests that call NewDatabase and WriteAny while TestMain or a test starts
\* or stops the cluster.
LockSpec == ClusterInit /\ [][LockNext]_vars

\* ------------------------------------------------------------------ scenario
\* TestShowDropDatabase on the started cluster. Every data node runs a meta
\* client of its own, with its own cache and poller; a node answers SHOW
\* DATABASES from the snapshot its client caches, and a node that ran a
\* CREATE or DROP DATABASE answers once its own cache holds the change.
TestDB  == "db_test"     \* the name NewDatabase generated
OtherDB == "db_other"    \* the database of another test of the suite

Pending == {"<pending>"} \* no response from the node yet

\* The database names in the store's document at index k.
DocAt(k) == IF k = 0 THEN {} ELSE docs[k]

\* What a step of the scenario leaves alone.
offScenario == <<localVars, queryVars, clientVars, pollVars, storeVars, calls,
                 panicked, auditVars, apiVars, constructVars, helperVars>>

\* local.NewDatabase: QueryAny of CREATE DATABASE on the node chosen by the
\* range over c.dataNodes, under the read lock. On an error it returns the
\* error and the test ends; else the node has created the database.
NewDatabase(id, outcome) ==
  /\ tpc = "idle"
  /\ running
  /\ muWriter = "none"
  /\ id \in dataNodes
  /\ IF query(id, outcome).err = "nil"
       THEN /\ docs' = Append(docs, DocAt(Len(docs)) \cup {TestDB})
            /\ cached' = [cached EXCEPT ![id] = Len(docs')]
            /\ tpc' = "created"
       ELSE /\ tpc' = "fatal"
            /\ UNCHANGED <<docs, cached>>
  /\ UNCHANGED <<shown, offScenario>>

\* Another test of the suite, run in parallel, has its database created.
OtherTest ==
  /\ running
  /\ OtherDB \notin DocAt(Len(docs))
  /\ docs' = Append(docs, DocAt(Len(docs)) \cup {OtherDB})
  /\ UNCHANGED <<cached, tpc, shown, offScenario>>

\* The poller of node id's client installs a newer snapshot, index j.
NodePoll(id, j) ==
  /\ id \in dataNodes
  /\ cached[id] < j
  /\ j <= Len(docs)
  /\ cached' = [cached EXCEPT ![id] = j]
  /\ UNCHANGED <<docs, tpc, shown, offScenario>>

\* The test calls QueryAll("SHOW DATABASES", ""): a response is due from
\* every id of c.dataNodes.
ShowAll ==
  /\ tpc \in {"created", "dropped"}
  /\ muWriter = "none"
  /\ tpc' = IF tpc = "created" THEN "show" ELSE "showAfterDrop"
  /\ shown' = [id \in Nodes |-> IF id \in dataNodes THEN Pending ELSE {}]
  /\ UNCHANGED <<docs, cached, offScenario>>

\* Node id answers the query of QueryAll from its cache.
Show(id) ==
  /\ tpc \in {"show", "showAfterDrop"}
  /\ shown[id] = Pending
  /\ shown' = [shown EXCEPT ![id] = DocAt(cached[id])]
  /\ UNCHANGED <<docs, cached, tpc, offScenario>>

\* The test's range over the channel of QueryAll ends: every node answered.
ShowEnds ==
  /\ tpc \in {"show", "showAfterDrop"}
  /\ \A id \in Nodes : shown[id] # Pending
  /\ tpc' = IF tpc = "show" THEN "shown" ELSE "shownAfterDrop"
  /\ UNCHANGED <<docs, cached, shown, offScenario>>

\* The test's QueryAny of DROP DATABASE on the node chosen by the range over
\* c.dataNodes, reached when no response of the first QueryAll made the test
\* end at t.Fatalf. On an error the test ends; else the node has dropped the
\* database.
DropAny(id, outcome) ==
  /\ tpc = "shown"
  /\ \A n \in dataNodes : TestDB \in shown[n]
  /\ muWriter = "none"
  /\ id \in dataNodes
  /\ IF query(id, outcome).err = "nil"
       THEN /\ docs' = Append(docs, DocAt(Len(docs)) \ {TestDB})
            /\ cached' = [cached EXCEPT ![id] = Len(docs')]
            /\ tpc' = "dropped"
       ELSE /\ tpc' = "fatal"
            /\ UNCHANGED <<docs, cached>>
  /\ UNCHANGED <<shown, offScenario>>

\* TestMain starts the cluster; then the test runs, with the pollers of the
\* nodes and another test beside it.
ScenarioNext ==
  \/ Lock("Start")
  \/ \E launched \in 0..MaxNodes, mapped \in BOOLEAN, made \in SUBSET Nodes :
       Start(launched, mapped, made)
  \/ \E id \in Nodes, outcome \in QueryOutcomes : NewDatabase(id, outcome)
  \/ OtherTest
  \/ \E id \in Nodes, j \in 1..Len(docs) : NodePoll(id, j)
  \/ ShowAll
  \/ \E id \in Nodes : Show(id)
  \/ ShowEnds
  \/ \E id \in Nodes, outcome \in QueryOutcomes : DropAny(id, outcome)

ScenarioSpec == ClusterInit /\ [][ScenarioNext]_vars

\* ------------------------------------------------------------------ claims
\* The submit of caller c has returned nil / has returned an error.
SubmitSucceeded(c) == calls[c].pc \in {"wait", "lookup", "done"} /\ calls[c].err = 0
SubmitFailed(c)    == calls[c].pc \in {"wait", "lookup", "done"} /\ calls[c].err # 0

\* C1: the index of the cached snapshot never decreases, also when a lagging
\* server answers with an index lower than the cached one.
C1_IndexNeverDecreases ==
  [][opened => data'.Index >= data.Index]_vars

\* C2: whenever the submit of CreateDatabase succeeded, the final
\* Database(name) lookup reads a snapshot whose index is at least the index
\* at which the store applied the command.
C2_LookupSeesAppliedIndex ==
  \A c \in Callers :
    (calls[c].pc = "done" /\ SubmitSucceeded(c)) => calls[c].retIndex >= calls[c].applied

\* C3: no lost wakeup. A gate a caller obtained from WaitForDataChanged, with
\* a newer snapshot in the store than in the cache, is eventually closed
\* (unless the process dies), under a fair poller whose fetches eventually
\* bring the newest snapshot.
C3_NoLostWakeup ==
  \A c \in Callers :
    (calls[c].ch # NoGate /\ calls[c].ch \notin closedGates /\ data.Index < Len(storeDBs))
      ~> (panicked \/ calls[c].ch \in closedGates)

C3_Witness ==
  \E c \in Callers :
    /\ calls[c].pc = "wait"
    /\ calls[c].ch \in closedGates
    /\ data.Index > calls[c].obtainedAt

\* C4: the index advance and the gate swap are one step: no caller holds a
\* still unopened gate while the cached index is greater than it was when
\* the gate was obtained.
C4_NoOldGateAfterAdvance ==
  \A c \in Callers :
    (calls[c].ch # NoGate /\ calls[c].ch \notin closedGates)
      => data.Index <= calls[c].obtainedAt

C4_Witness ==
  \E c \in Callers :
    /\ calls[c].pc = "exec"
    /\ calls[c].ch \in closedGates
    /\ calls[c].ch # changed
    /\ data.Index > calls[c].obtainedAt

\* C5: after Open the current gate c.changed is one gate, the last one made,
\* and it is unopened; a gate that was closed stays closed and is never
\* current again.
C5_GateOneShot ==
  /\ [](changed # NoGate => (changed = gates /\ changed \notin closedGates))
  /\ [][closedGates \subseteq closedGates' /\ (changed' \in closedGates => changed' = changed)]_vars

C5_Witness ==
  /\ opened
  /\ Cardinality(closedGates) >= 2
  /\ changed \notin closedGates

\* C6: when the poller fetched a snapshot whose index is less than or equal
\* to the cached index, the cached snapshot is left unchanged.
C6_StaleFetchLeavesCache ==
  [][(opened /\ ppc = "install" /\ ppc' = "read" /\ pdata.Index <= data.Index)
       => data' = data]_vars

\* C7: the gate is closed and replaced by a fresh unopened gate exactly in
\* the poller steps whose fetched index is greater than the cached index; a
\* fetch of a lower or equal index neither closes nor replaces the gate.
C7_GateSwapIffAdvance ==
  [][opened =>
       IF ppc = "install" /\ ppc' = "read" /\ pdata.Index > data.Index
         THEN /\ closedGates' = closedGates \cup {changed}
              /\ changed' # changed
              /\ changed' \notin closedGates'
         ELSE changed' = changed /\ closedGates' = closedGates]_vars

\* A fetch of a lower index was installed: some server served a newer
\* document than the cache now holds.
C7_Witness ==
  /\ opened
  /\ ppc = "read"
  /\ staleFetches > 0
  /\ \E k \in 1..Len(metaServers) : served[metaServers[k]] > data.Index
  /\ changed \notin closedGates

\* C8: whenever CreateDatabase(name) returns without an error, the returned
\* DatabaseInfo is not nil and its Name is name.
C8_ReturnsNamedDatabase ==
  \A c \in Callers :
    (calls[c].pc = "done" /\ calls[c].ret.err = "nil")
      => (calls[c].ret.info # NoDB /\ calls[c].ret.info = calls[c].name)

C8_Witness ==
  \E c \in Callers :
    /\ calls[c].pc = "done"
    /\ calls[c].ret.err = "nil"
    /\ Len(data.Databases) = 2
    /\ data.Databases[2] = calls[c].name

\* C9: CreateDatabase has read the gate before it sends the first command
\* request, and the gate it waits on afterwards is that gate.
C9_ObtainThenAct ==
  \A c \in Callers :
    /\ calls[c].pc # "idle" => calls[c].ch # NoGate
    /\ calls[c].sent > 0 => calls[c].ch # NoGate
    /\ calls[c].pc \in {"lookup", "done"} /\ calls[c].waited # NoGate
         => calls[c].waited = calls[c].ch

C9_Witness ==
  \E c \in Callers :
    /\ calls[c].pc = "lookup"
    /\ calls[c].sent > 0
    /\ calls[c].waited = calls[c].ch
    /\ calls[c].ch # changed

\* C10: when the submit failed on every server, CreateDatabase returns that
\* error and a nil DatabaseInfo and has not waited on the gate.
C10_SubmitFailureReturns ==
  \A c \in Callers :
    SubmitFailed(c) =>
      /\ calls[c].pc = "done"
      /\ calls[c].ret = [info |-> NoDB, err |-> "exec"]
      /\ calls[c].err = Len(metaServers)
      /\ calls[c].waited = NoGate

\* The submit failed on every server and the call is over, with the gate
\* still closed to waiters and the cached index where it was.
C10_Witness ==
  \E c \in Callers :
    /\ calls[c].pc = "done"
    /\ calls[c].err # 0
    /\ calls[c].sent = Len(metaServers)
    /\ calls[c].ch \notin closedGates
    /\ data.Index = calls[c].obtainedAt

\* C11: when the submit succeeded and the cached snapshot read after the gate
\* opened holds no database of that name, CreateDatabase returns the
\* database-not-found error, which is not the submit's error, and a nil
\* DatabaseInfo.
C11_NotFoundAfterWait ==
  \A c \in Callers :
    (/\ calls[c].pc = "done"
     /\ SubmitSucceeded(c)
     /\ calls[c].name \notin Range(SnapshotAt(calls[c].retIndex).Databases))
      => /\ calls[c].ret = [info |-> NoDB, err |-> "ErrDatabaseNotFound"]
         /\ calls[c].ret.err # "exec"
         /\ calls[c].waited \in closedGates

\* The server applied the command, the gate had been opened by an earlier
\* change, and the lookup ran on a snapshot from before the command.
C11_Witness ==
  \E c \in Callers :
    /\ calls[c].pc = "done"
    /\ SubmitSucceeded(c)
    /\ calls[c].sent > 0
    /\ calls[c].waited \in closedGates
    /\ calls[c].retIndex < calls[c].applied
    /\ calls[c].ret.err = "ErrDatabaseNotFound"

\* C12: retryUntilExec posts to the servers in the order of the list, to
\* each at most once, and to none after the first that answered with
\* success.
C12_ListOrderStopAtSuccess ==
  \A c \in Callers :
    LET l == calls[c].tried
    IN /\ Len(l) <= Len(metaServers)
       /\ \A k \in 1..Len(l) : l[k] = metaServers[k]
       /\ \A j, k \in 1..Len(l) : l[j] = l[k] => j = k
       /\ calls[c].okAt # 0 => calls[c].okAt = Len(l)
       /\ SubmitSucceeded(c) /\ Len(metaServers) > 0 => calls[c].okAt # 0

\* The first server failed and the second answered with success.
C12_Witness ==
  \E c \in Callers :
    /\ SubmitSucceeded(c)
    /\ Len(metaServers) = 2
    /\ calls[c].tried = <<metaServers[1], metaServers[2]>>
    /\ calls[c].okAt = 2

\* C13: when every server fails, retryUntilExec has tried every server of
\* the list and returns the error of the last one.
C13_LastErrorAfterAll ==
  \A c \in Callers :
    SubmitFailed(c) =>
      /\ calls[c].tried = metaServers
      /\ calls[c].okAt = 0
      /\ calls[c].err = Len(metaServers)

\* Two servers, both failed: the error returned is the second one's.
C13_Witness ==
  \E c \in Callers :
    /\ SubmitFailed(c)
    /\ Len(metaServers) = 2
    /\ Len(calls[c].tried) = 2
    /\ calls[c].err = 2

\* C14: exactly one server processes the command of a call: when a server
\* applied it and the client saw a failure because the answer was lost, no
\* second server gets and applies the command in that call.
\* A call still in retryUntilExec with applied set is a call whose command a
\* server applied and whose answer was lost.
C14_OneServerApplies ==
  [][\A c \in Callers :
       (calls[c].pc = "exec" /\ calls[c].applied # 0)
         => ~(calls'[c].sent = calls[c].sent + 1 /\ calls'[c].err = 0)]_vars

\* C15: failover. When the first K servers of the list fail (K less than the
\* length of the list) and the next one answers, retryUntilSnapshot returns
\* the answer of server K+1 after one failed request to each of the first K,
\* and retryUntilExec returns nil from server K+1 after one failed request
\* to each of the first K.
C15_Failover ==
  /\ ppc = "install" =>
       LET K == Len(failedOn)
       IN /\ K < Len(metaServers)
          /\ failedOn = SubSeq(metaServers, 1, K)
          /\ pserver = metaServers[K + 1]
  /\ \A c \in Callers :
       SubmitSucceeded(c) /\ Len(metaServers) > 0 =>
         LET K == calls[c].sent - 1
         IN /\ K < Len(metaServers)
            /\ calls[c].tried = SubSeq(metaServers, 1, K + 1)
            /\ calls[c].okAt = K + 1

\* One server failed in the fetch and one in the submit, and the second
\* answered both.
C15_Witness ==
  /\ Len(metaServers) = 2
  /\ ppc = "install"
  /\ failedOn = <<metaServers[1]>>
  /\ pserver = metaServers[2]
  /\ \E c \in Callers :
       /\ SubmitSucceeded(c)
       /\ calls[c].tried = metaServers
       /\ calls[c].okAt = 2

\* C17: convergence. With one configured server that stays reachable and
\* serves every index the store has accepted, and a fair poller, the cached
\* index becomes greater than or equal to every index the store has accepted,
\* whatever the other servers of the list do.
C17_Convergence ==
  \A n \in 1..Cardinality(DBNames) :
    (opened /\ Len(storeDBs) >= n) ~> (data.Index >= n \/ panicked)

\* C18: a failed snapshot fetch is absorbed by the poller: the step changes
\* neither the cached snapshot nor the gate nor any caller, the poller stays
\* in retryUntilSnapshot, and its next request goes to the server after the
\* one that failed, the first after the last; whatever the number of
\* failures, the next attempt may fail again and is retried.
C18_FailedFetchAbsorbed ==
  /\ [][(failedOn' # failedOn /\ failedOn' # <<>>) =>
          /\ data' = data
          /\ changed' = changed /\ closedGates' = closedGates /\ gates' = gates
          /\ calls' = calls
          /\ ppc' = "read" /\ ~panicked'
          /\ currentServer' = Cursor + 1]_vars
  /\ []((ppc = "read" /\ failedOn # <<>>) =>
          /\ metaServers[Cursor + 1]
                = metaServers[(failedOn[Len(failedOn)] % Len(metaServers)) + 1]
          /\ ENABLED SnapshotErr)

\* Both servers failed while a caller waits on the gate: the next request
\* goes to the first server again.
C18_Witness ==
  /\ opened
  /\ ppc = "read"
  /\ Len(metaServers) = 2
  /\ failedOn = metaServers
  /\ Cursor = 0
  /\ \E c \in Callers : calls[c].pc = "wait" /\ calls[c].ch \notin closedGates

\* C16: after Close has returned the poller loop is cancelled: a fetch that
\* was under way may finish and be installed, and after that the poller
\* starts no fetch and changes neither the cached snapshot nor the gate.
C16_PollerStopsAfterClose ==
  [][afterClose =>
       \/ UNCHANGED <<ppc, currentServer, failedOn, pdata, data, changed, closedGates>>
       \/ panicked']_vars

\* C19: a fetch that a server answers with a status other than 200 counts as
\* a failure: its body is never installed, the cached snapshot is never the
\* body of such an answer.
C19_BadStatusNotInstalled ==
  dataStatus \in {NoStatus, "200 OK"}

\* The node ids of a sequence of responses.
NodeIDs(rs) == {rs[k].nodeID : k \in 1..Len(rs)}

\* C20: fan-out completeness. QueryAll delivers one response for every id of
\* c.dataNodes and no other, n in all, and then closes the channel, in every
\* interleaving and also when nodes answer with an error or have no client
\* after a concurrent Stop; the caller's range over the channel ends.
C20_FanOutComplete ==
  /\ [](LET sent == received \o ch
        IN /\ Len(sent) <= Cardinality(targets)
           /\ NodeIDs(sent) \subseteq targets
           /\ \A j, k \in 1..Len(sent) : sent[j].nodeID = sent[k].nodeID => j = k
           /\ chClosed => NodeIDs(sent) = targets
           /\ qpc = "finished" =>
                /\ chClosed
                /\ Len(received) = Cardinality(targets)
                /\ NodeIDs(received) = targets)
  /\ (qpc = "loop") ~> (qpc = "finished")

\* A cluster of two data nodes was stopped while QueryAll ran: one node had
\* answered, the other had no client any more; both responses arrived.
C20_Witness ==
  /\ qpc = "finished"
  /\ ~running
  /\ Cardinality(targets) = 2
  /\ Len(received) = 2
  /\ \E k \in 1..2 : received[k].err = "nil"
  /\ \E k \in 1..2 : received[k].err = "cannot find client"

\* C26: the poller keeps a round-robin cursor across fetches: after a fetch
\* that failed on the first K servers and was answered by server K+1, the
\* next fetch starts at the cursor advanced by K+1 (mod N), not at the first
\* server of the list again.
C26_CursorKept ==
  [][(opened /\ ppc = "install" /\ ppc' = "read" /\ Len(metaServers) > 0)
       => Cursor' = (Len(failedOn) + 1) % Len(metaServers)]_vars

\* C27: at client start the cache holds the empty snapshot with index 0:
\* when Open issues its first snapshot request, c.data is not nil and the
\* index it reads and sends is 0.
C27_StartsWithEmptySnapshot ==
  (ppc = "read" /\ ~opened) => (~data.isNil /\ data.Index = 0)

\* C28: every CreateDatabase call whose submit succeeded eventually returns,
\* with a fair poller and a reachable server, also when the accepted command
\* does not raise the store's index and when the cache had caught up before
\* the wait began.
C28_CallReturns ==
  \A c \in Callers :
    (calls[c].pc = "wait" /\ calls[c].err = 0 /\ calls[c].okAt # 0)
      ~> (calls[c].pc = "done" \/ panicked)

\* C29: retryUntilExec returns nil only if a configured server answered the
\* command request with 200; with an empty server list it returns an error,
\* and CreateMetaNode does not report success.
C29_NilOnlyAfter200 ==
  (mcall.pc = "done" /\ mcall.ret.err = "nil") => mcall.okAt # 0

\* The calls that returned, as the test made them.
Created(name) == [op |-> "CreateDatabase", name |-> name, err |-> "nil"]
Dropped(name) == [op |-> "DropDatabase", name |-> name, err |-> "nil"]

\* C22: after CreateDatabase has succeeded for db0 and then for db1 on a
\* fresh service, Databases() returns exactly those two databases, in the
\* order they were created.
C22_DatabasesInOrder ==
  returned = <<Created("db0"), Created("db1")>>
    => Databases = [dbs |-> <<"db0", "db1">>, err |-> "nil"]

\* C23: after a database was created and is visible through Database(name),
\* a drop of it that returned without error is followed by Database(name)
\* returning an error.
C23_DroppedIsGone ==
  \A name \in DBNames :
    returned = <<Created(name), Dropped(name)>> => Database(name).err # "nil"

C30_StopSignalsAll ==
  [][(muWriter = "Stop" /\ muWriter' = "none") => live' = 0]_vars

\* The node counts violate the cluster invariant.
CountsViolated(a) ==
  a.metaN + a.hybridN < MinMetaNodes \/ a.dataN + a.hybridN < MinDataNodes

\* C25: cluster construction fails fast. Whenever metaN+hybridN < 3 or
\* dataN+hybridN < 1, newlocal panics with the message of the invariant
\* before it has created any directory or configuration; with other counts
\* it never panics with such a message.
C25_FailFast ==
  cpc # "check" =>
    IF CountsViolated(args)
      THEN cpc = "panicked" /\ cerr \in {TooFewMetaNodes, TooFewDataNodes}
                            /\ created = 0
      ELSE cerr \notin {TooFewMetaNodes, TooFewDataNodes}

\* Enough meta nodes and no data node: the second check has panicked.
C25_Witness ==
  /\ cpc = "panicked"
  /\ cerr = TooFewDataNodes
  /\ args.metaN >= MinMetaNodes
  /\ args.hybridN = 0
  /\ created = 0

\* C21: the convergence scenario. After NewDatabase has returned a name
\* without error, a following QueryAll of SHOW DATABASES yields from every
\* data node a result that contains the name; after a DROP DATABASE through
\* one node succeeded, a following QueryAll yields from every data node a
\* result that lacks it.
C21_ConvergenceScenario ==
  /\ tpc = "shown" => \A id \in dataNodes : TestDB \in shown[id]
  /\ tpc = "shownAfterDrop" => \A id \in dataNodes : TestDB \notin shown[id]

\* C38: Close may be called more than once, and before or after Open: every
\* call returns nil and the process does not die of it.
C38_CloseAnyTime ==
  [][Close => ~panicked']_vars

\* C33: while the cluster is running, the node ids with an open client are
\* the data node ids mapServers found; when Stop has returned no node has a
\* client, and a query for any id returns a response that carries an error.
C33_ClientsFollowRunning ==
  /\ [](running => clients = dataNodes)
  /\ [][(muWriter = "Stop" /\ muWriter' = "none") =>
          /\ clients' = {}
          /\ \A id \in Nodes, outcome \in QueryOutcomes :
                query(id, outcome)'.err # "nil"]_vars

\* C32: every goroutine QueryAll started finishes its send and exits, and
\* the channel is closed in the end, also when the caller stops reading
\* early or never reads: no goroutine ever finds the channel full.
C32_SendersNeverBlock ==
  /\ [](\A id \in Nodes : wpc[id] = "send" => (Len(ch) < chCap /\ ~chClosed))
  /\ \A id \in Nodes : (wpc[id] = "start") ~> (wpc[id] = "done")
  /\ (qpc = "loop") ~> chClosed

\* All goroutines of a cluster of MaxNodes nodes have sent and the channel is
\* closed, while the caller has read nothing.
C32_Witness ==
  /\ qpc = "range"
  /\ received = <<>>
  /\ targets = Nodes
  /\ Len(ch) = MaxNodes
  /\ chClosed
  /\ \A id \in Nodes : wpc[id] = "done"

\* C31: no interleaving of the calls deadlocks: while NewDatabase or WriteAny
\* is under way, concurrently with Start or Stop, some goroutine can take its
\* next step, so that the call completes.
C31_NoDeadlock ==
  (\E op \in LockedCalls : lpc[op] \in {"outer", "inner", "unlock"})
    => ENABLED LockNext

\* C34: mapServers returns nil only when the answer it parsed lists at least
\* metaN meta nodes and at least dataN data nodes, and c.dataNodes is then
\* the data nodes of that answer; after an incomplete answer it waits for
\* another check; it returns the timeout error only when the timeout has
\* passed.
C34_MappedOnlyWhenComplete ==
  /\ (mapping.pc = "returned" /\ mapping.err = "nil") =>
       /\ mapping.answer.kind = "parsed"
       /\ mapping.answer.meta >= mapping.metaN
       /\ Cardinality(mapping.answer.data) >= dataN
       /\ dataNodes = mapping.answer.data
  /\ (mapping.pc = "returned" /\ mapping.err = MapTimeout) => mapping.timedOut
  /\ (/\ mapping.answer.kind = "parsed"
      /\ ~(/\ mapping.answer.meta >= mapping.metaN
           /\ Cardinality(mapping.answer.data) >= dataN)) =>
       /\ mapping.retries >= 1
       /\ \/ mapping.pc = "select"
          \/ mapping.pc = "returned" /\ mapping.err = MapTimeout

\* mapServers has returned nil on a later check, with more data nodes in
\* the answer than the cluster was made with.
C34_Witness ==
  /\ mapping.pc = "returned"
  /\ mapping.err = "nil"
  /\ mapping.retries >= 1
  /\ Cardinality(dataNodes) > dataN

\* C35: when parseResult returns an error for the answer, mapServers
\* schedules another check and goes on waiting, until a later check
\* succeeds or the timeout passes: it does not crash.
C35_ParseErrorRetries ==
  mapping.answer.kind = "parse error" =>
    /\ mapping.retries >= 1
    /\ \/ mapping.pc = "select"
       \/ mapping.pc = "returned" /\ mapping.err = MapTimeout

\* The sequence of characters is a decimal numeral: digits, after a sign or
\* none.
IsNumeral(str) ==
  \E k \in 0..1 :
    /\ Len(str) > k
    /\ k = 1 => str[1] \in {"+", "-"}
    /\ \A j \in (k + 1)..Len(str) :
         str[j] \in {"0", "1", "2", "3", "4", "5", "6", "7", "8", "9"}

Colons(str) == {k \in 1..Len(str) : str[k] = ":"}

\* C40: shiftPort adds delta to the port of host:port, :port or port and
\* keeps the host; it returns the empty string and an error when the port
\* is not a number or the address has more than one colon. ptoi returns the
\* port of the same forms and an error when the port is not a number.
C40_ShiftPortAndPtoi ==
  fout # <<>> =>
    LET in    == fin.in
        at    == IF Colons(in) = {} THEN 0 ELSE CHOOSE k \in Colons(in) : TRUE
        host  == SubSeq(in, 1, at)
        port  == SubSeq(in, at + 1, Len(in))
        out   == fout.shifted
    IN  /\ Cardinality(Colons(in)) > 1 => (out.err # "nil" /\ out.str = <<>>)
        /\ Cardinality(Colons(in)) <= 1 =>
             IF IsNumeral(port)
               THEN /\ out.err = "nil"
                    /\ fout.port.err = "nil"
                    /\ SubSeq(out.str, 1, at) = host
                    /\ Colons(out.str) = Colons(in)
                    /\ IsNumeral(SubSeq(out.str, at + 1, Len(out.str)))
                    /\ ptoi(out.str).val = fout.port.val + fin.delta
               ELSE /\ out.err # "nil"
                    /\ out.str = <<>>
                    /\ fout.port.err # "nil"

\* shiftPort("h:80", -100) has returned "h:-20", and ptoi("h:80") 80.
C40_Witness ==
  /\ fin = [in |-> <<"h", ":", "8", "0">>, delta |-> -100]
  /\ fout # <<>>
  /\ fout.shifted = [str |-> <<"h", ":", "-", "2", "0">>, err |-> "nil"]
  /\ fout.port = [val |-> 80, err |-> "nil"]

\* The orders of n columns, and a series with its columns, and the cells of
\* each of its rows, put in the order p.
Perms(n) == {p \in [1..n -> 1..n] : \A i, j \in 1..n : i # j => p[i] # p[j]}

Permuted(row, p) ==
  [row EXCEPT !.Columns = [i \in 1..Len(row.Columns) |-> row.Columns[p[i]]],
              !.Values  = [k \in 1..Len(row.Values) |->
                             IF row.Values[k] = <<>> THEN <<>>
                             ELSE [i \in 1..Len(row.Columns) |->
                                     row.Values[k][p[i]]]]]

\* The columns the command reads, and a series without one of them.
Required(c) == IF c = "ShowServers" THEN {"id", "http_addr"} ELSE {ColumnOf(c)}

Lacks(c, row) ==
  \E col \in Required(c) : \A i \in 1..Len(row.Columns) : row.Columns[i] # col

\* C37: parseResult finds the values by the name of their column, not by
\* position: for every command, the columns of a series put in another
\* order, with the cells of each row, give the same parsed result; and a
\* series that lacks a column the command reads gives an error and a nil
\* result.
C37_ByColumnName ==
  fout # <<>> =>
    LET last == Len(fin.series)
        one  == fin.series[last]
    IN  /\ \A p \in Perms(Len(one.Columns)) :
             parseResult(fin.cmd, [fin.series EXCEPT ![last] = Permuted(one, p)])
               = fout
        /\ (\E k \in 1..last : Lacks(fin.cmd, fin.series[k])) =>
             (fout.isNil /\ fout.err # "nil")

\* The map of the parsed result that the method under test reads.
EntriesOf(fn, r) ==
  CASE fn = "HasTagKeys"   -> r.tagKeys
    [] fn = "HasTagValues" -> r.tagValues
    [] fn = "HasFieldKeys" -> r.fieldKeys

\* How often key occurs in the list.
Count(a, key) == Cardinality({k \in 1..Len(a) : a[k] = key})

\* The list in the order p.
Reordered(a, p) == [i \in 1..Len(a) |-> a[p[i]]]

\* C36: HasTagKeys, HasTagValues and HasFieldKeys return true if and only
\* if the parsed result has an entry for the measurement that holds the
\* expected elements exactly, whatever the order of the expected list and
\* of the parsed list; a missing measurement or another length gives false.
C36_ExactlyTheExpected ==
  fout # <<>> =>
    LET m == EntriesOf(fin.fn, fin.r)
    IN  /\ fout.ret = (/\ fin.measure \in DOMAIN m
                        /\ \A key \in Keys :
                             Count(m[fin.measure], key) = Count(fin.expected, key))
        /\ fin.measure \notin DOMAIN m => ~fout.ret
        /\ fin.measure \in DOMAIN m =>
             /\ Len(m[fin.measure]) # Len(fin.expected) => ~fout.ret
             /\ \A p \in Perms(Len(fin.expected)) :
                  HasOnly(m, fin.measure, Reordered(fin.expected, p)).ret = fout.ret
             /\ \A p \in Perms(Len(m[fin.measure])) :
                  HasOnly([m EXCEPT ![fin.measure] = Reordered(@, p)],
                          fin.measure, fin.expected).ret = fout.ret

\* HasFieldKeys has returned true for an expected list that is the parsed
\* list in another order, with a key that occurs twice.
C36_Witness ==
  /\ fout # <<>>
  /\ fout.ret
  /\ fin.fn = "HasFieldKeys"
  /\ fin.expected = <<"zone", "host", "zone">>
  /\ fin.r.fieldKeys["cpu"] = <<"host", "zone", "zone">>

\* The entry of the join argument for the port.
JoinEntry(port) == Localhost \o <<":">> \o Itoa(port)

\* The string is the n entries localhost:(seedPort + 100 * i), i = 1..n,
\* with one comma between two entries and none before or after.
IsJoinOf(join, n, seedPort) ==
  LET parts == Split(join, ",")
  IN  /\ Len(parts) = n
      /\ \A i \in 1..n : parts[i] = JoinEntry(seedPort + 100 * i)
      /\ join[1] # ","
      /\ join[Len(join)] # ","

\* C39: generateJoinArg(n, seedPort) for n >= 1 returns exactly the n
\* entries localhost:(seedPort + 100 * i), i = 1..n, in increasing order,
\* joined by single commas with no leading or trailing comma; in newlocal
\* these are exactly the meta HTTP addresses of the meta-capable nodes, the
\* nodes 1..hybridN+metaN.
C39_JoinArgument ==
  /\ (fout # <<>> /\ fin.call = "generateJoinArg" /\ fin.n >= 1) =>
       IsJoinOf(fout.join, fin.n, fin.seedPort)
  /\ (fout # <<>> /\ fin.call = "newlocal" /\ fout.panic = "none") =>
       LET metaNodes == {id \in DOMAIN fout.nodeConfs :
                           fout.nodeConfs[id].conf.metaEnabled}
           parts     == Split(fout.join, ",")
       IN  /\ IsJoinOf(fout.join, fin.hybridN + fin.metaN, ptoi(fin.bind).val)
           /\ metaNodes = 1..(fin.hybridN + fin.metaN)
           /\ Len(parts) = Cardinality(metaNodes)
           /\ \A id \in metaNodes :
                parts[id] =
                  JoinEntry(ptoi(fout.nodeConfs[id].conf.metaHTTPBindAddress).val)

\* newlocal has configured one hybrid node, two meta nodes and one data
\* node on the default port 8091, with the join argument of the test.
C39_Witness ==
  /\ fout # <<>>
  /\ fin = [call |-> "newlocal", hybridN |-> 1, metaN |-> 2, dataN |-> 1,
            bind |-> <<":", "8", "0", "9", "1">>]
  /\ fout.join = JoinEntry(8191) \o <<",">> \o JoinEntry(8291)
                   \o <<",">> \o JoinEntry(8391)
  /\ fout.nodeConfs[3].conf.metaHTTPBindAddress = <<":", "8", "3", "9", "1">>

====
